---- MODULE Spec2Model ----
(***************************************************************************)
(* A model of welovebot: the configuration resolver                        *)
(* (src/welovebot/lib/config.py, src/welovebot/lib/cog.py,                 *)
(* src/welovebot/lib/bot.py), the handlers that the decorators of BaseCog  *)
(* bind to listener events and the tasks they run on the asyncio loop      *)
(* (src/welovebot/lib/cog.py, src/welovebot/lib/web.py), the discovery of  *)
(* extensions and the startup (src/welovebot/lib/bot.py,                   *)
(* src/welovebot/__main__.py), the JSON store JsonConfig                   *)
(* (src/welovebot/lib/config.py), and the image handlers with their seen   *)
(* records (src/welovebot/apps/images_handler.py, src/welovebot/lib/cog.py)*)
(*                                                                         *)
(* Python strings are sequences of one-character strings, so that          *)
(* upper(), split(), strip(), the snake-case regex and the int/float       *)
(* parsers are computed character by character.  A Python value is a       *)
(* record [t, v]: t is the Python type and v the payload.  The outcome of  *)
(* a call is a record [kind, val]: kind is "ok" or the name of the         *)
(* exception that left the call.                                           *)
(***************************************************************************)
EXTENDS Integers, Sequences, FiniteSets, TLC

----------------------------------------------------------------------------
(* F applied to e, with e evaluated once *)
Eval(F(_), e) == CHOOSE r \in {F(x) : x \in {e}} : TRUE

----------------------------------------------------------------------------
(* Characters and strings *)

LowerAlpha == <<"a","b","c","d","e","f","g","h","i","j","k","l","m",
                "n","o","p","q","r","s","t","u","v","w","x","y","z">>

UpperAlpha == <<"A","B","C","D","E","F","G","H","I","J","K","L","M",
                "N","O","P","Q","R","S","T","U","V","W","X","Y","Z">>

Digits == <<"0","1","2","3","4","5","6","7","8","9">>

IsUpperCh(c) == \E i \in DOMAIN UpperAlpha : UpperAlpha[i] = c

IsLowerCh(c) == \E i \in DOMAIN LowerAlpha : LowerAlpha[i] = c

IsDigitCh(c) == \E i \in DOMAIN Digits : Digits[i] = c

UpperCh(c) ==
    IF IsLowerCh(c)
    THEN UpperAlpha[CHOOSE i \in DOMAIN LowerAlpha : LowerAlpha[i] = c]
    ELSE c

\* str.upper()
upper(s) == Eval(LAMBDA x : [i \in 1..Len(x) |-> UpperCh(x[i])], s)

\* str.join over a tuple of strings
RECURSIVE join(_, _)
join(sep, parts) ==
    IF Len(parts) = 0 THEN <<>>
    ELSE IF Len(parts) = 1 THEN parts[1]
    ELSE parts[1] \o sep \o join(sep, Tail(parts))

\* str.split(sep): leftmost, non-overlapping occurrences of sep
RECURSIVE split(_, _)
split(s, sep) ==
    LET n    == Len(sep)
        hits == {i \in 1..(Len(s) - n + 1) : SubSeq(s, i, i + n - 1) = sep}
    IN  IF hits = {} THEN <<s>>
        ELSE LET i == CHOOSE h \in hits : \A g \in hits : h <= g
             IN  <<SubSeq(s, 1, i - 1)>> \o split(SubSeq(s, i + n, Len(s)), sep)

\* str.strip(): leading and trailing blanks removed
strip(s) ==
    LET keep == {i \in 1..Len(s) : s[i] # " "}
    IN  IF keep = {} THEN <<>>
        ELSE SubSeq(s, CHOOSE i \in keep : \A j \in keep : i <= j,
                       CHOOSE i \in keep : \A j \in keep : i >= j)

----------------------------------------------------------------------------
(* Python values and call outcomes *)

None == [t |-> "none", v |-> <<>>]

PyStr(s) == [t |-> "str", v |-> s]

PyInt(n) == [t |-> "int", v |-> n]

\* a float m * 10^(-e), kept normalised: no trailing zero in the fraction
RECURSIVE PyFloat(_, _)
PyFloat(m, e) ==
    IF e > 0 /\ m % 10 = 0 THEN PyFloat(m \div 10, e - 1)
    ELSE [t |-> "float", v |-> <<m, e>>]

\* a bool, which is an int: False is 0 and True is 1
PyBool(b) == [t |-> "bool", v |-> IF b THEN 1 ELSE 0]

Coll(to, elems) == [t |-> to, v |-> elems]

\* Python truth value of an object, as used by `or` and `not`
Falsy(x) ==
    CASE x.t = "none"  -> TRUE
      [] x.t = "str"   -> x.v = <<>>
      [] x.t = "int"   -> x.v = 0
      [] x.t = "float" -> x.v[1] = 0
      [] x.t = "set"   -> x.v = {}
      [] OTHER         -> x.v = <<>>

Ok(x) == [kind |-> "ok", val |-> x]

Raise(e) == [kind |-> e, val |-> None]

----------------------------------------------------------------------------
(* The built-in conversions int(), float() and str() *)

DigitVal(c) == (CHOOSE i \in DOMAIN Digits : Digits[i] = c) - 1

AllDigits(s) == \A i \in 1..Len(s) : IsDigitCh(s[i])

RECURSIVE StrToNat(_)
StrToNat(s) ==
    IF s = <<>> THEN 0
    ELSE StrToNat(SubSeq(s, 1, Len(s) - 1)) * 10 + DigitVal(s[Len(s)])

RECURSIVE NatToStr(_)
NatToStr(n) ==
    IF n < 10 THEN <<Digits[n + 1]>>
    ELSE NatToStr(n \div 10) \o <<Digits[(n % 10) + 1]>>

IntToStr(n) == IF n < 0 THEN <<"-">> \o NatToStr(-n) ELSE NatToStr(n)

RECURSIVE Pow10(_)
Pow10(e) == IF e = 0 THEN 1 ELSE 10 * Pow10(e - 1)

RECURSIVE Zeros(_)
Zeros(n) == IF n <= 0 THEN <<>> ELSE <<"0">> \o Zeros(n - 1)

\* repr of a float in positional notation
FloatToStr(m, e) ==
    LET a    == IF m < 0 THEN -m ELSE m
        whole == a \div Pow10(e)
        frac  == a % Pow10(e)
        fs    == IF e = 0 THEN <<"0">>
                 ELSE Zeros(e - Len(NatToStr(frac))) \o NatToStr(frac)
    IN  (IF m < 0 THEN <<"-">> ELSE <<>>) \o NatToStr(whole) \o <<".">> \o fs

\* a sign followed by the unsigned rest
SignOf(s) == IF Len(s) > 0 /\ s[1] = "-" THEN -1 ELSE 1

Unsigned(s) == IF Len(s) > 0 /\ s[1] \in {"-", "+"} THEN Tail(s) ELSE s

\* int(x)
py_int(x) ==
    CASE x.t = "int"   -> Ok(x)
      [] x.t = "float" ->
            LET a == IF x.v[1] < 0 THEN -x.v[1] ELSE x.v[1]
                q == a \div Pow10(x.v[2])
            IN  Ok(PyInt(IF x.v[1] < 0 THEN -q ELSE q))
      [] x.t = "str"   ->
            Eval(LAMBDA s :
                    Eval(LAMBDA u : IF u # <<>> /\ AllDigits(u)
                                    THEN Ok(PyInt(SignOf(s) * StrToNat(u)))
                                    ELSE Raise("ValueError"),
                         Unsigned(s)),
                 strip(x.v))
      [] OTHER         -> Raise("TypeError")

\* float(x), decimal notation without exponent
py_float(x) ==
    CASE x.t = "float" -> Ok(x)
      [] x.t = "int"   -> Ok(PyFloat(x.v, 0))
      [] x.t = "str"   ->
            Eval(LAMBDA s :
                    Eval(LAMBDA parts :
                            LET whole == parts[1]
                                frac  == IF Len(parts) = 2 THEN parts[2] ELSE <<>>
                            IN  IF /\ Len(parts) <= 2
                                   /\ AllDigits(whole) /\ AllDigits(frac)
                                   /\ whole \o frac # <<>>
                                THEN Ok(PyFloat(SignOf(s) * StrToNat(whole \o frac),
                                                Len(frac)))
                                ELSE Raise("ValueError"),
                         split(Unsigned(s), <<".">>)),
                 strip(x.v))
      [] OTHER         -> Raise("TypeError")

\* str(x) of a scalar
py_str(x) ==
    CASE x.t = "str"   -> Ok(x)
      [] x.t = "int"   -> Ok(PyStr(IntToStr(x.v)))
      [] x.t = "float" -> Ok(PyStr(FloatToStr(x.v[1], x.v[2])))
      [] OTHER         -> Ok(PyStr(<<"<", "o", "b", "j", ">">>))

----------------------------------------------------------------------------
(* Keys: a plain str, or a KeyT (a str tagged as already prefixed) *)

Key(s) == [tag |-> FALSE, s |-> s]

KeyT(s) == [tag |-> TRUE, s |-> s]

Sep == <<"_", "_">>

\* re.sub('(?!^)([A-Z]+)', r'_\1', s): an underscore before every maximal run
\* of capitals that the scan finds from the second character on
RECURSIVE re_sub_capitals(_, _)
re_sub_capitals(s, i) ==
    IF i > Len(s) THEN <<>>
    ELSE (IF /\ i >= 2
             /\ IsUpperCh(s[i])
             /\ (i = 2 \/ ~IsUpperCh(s[i - 1]))
          THEN <<"_">> ELSE <<>>)
         \o <<s[i]>> \o re_sub_capitals(s, i + 1)

\* EnvConfig._snake_case
snake_case(k) ==
    IF k.tag THEN k.s ELSE upper(re_sub_capitals(k.s, 1))

\* PrefixConfig._join_prefix
join_prefix(parts) == Eval(LAMBDA s : KeyT(s), upper(join(Sep, parts)))

\* PrefixConfig._unjoin_prefix
unjoin_prefix(k) == Eval(LAMBDA segs : segs[Len(segs)], split(k.s, Sep))

\* PrefixConfig._key without the test for a KeyT
PrefixConfig_key_rejoined(prefix, k) == join_prefix(<<prefix, k.s>>)

\* PrefixConfig._key
PrefixConfig_key(prefix, k) ==
    IF k.tag THEN k ELSE join_prefix(<<prefix, k.s>>)

\* PrefixConfig._unkey
PrefixConfig_unkey(k) == IF ~k.tag THEN k.s ELSE unjoin_prefix(k)

----------------------------------------------------------------------------
(* TypedConfig: the coercion table *)

\* an annotation: origin is "" for a scalar type, else the lower-cased name
\* of the collection type; elem is the name of the (element) type
Ann(origin, elem) == [origin |-> origin, elem |-> elem]

\* the annotation 'origin[elem, ...]' as the str that it is in a module with
\* `from __future__ import annotations`, with its parameters after the first
AnnStr(origin, elems) ==
    [origin |-> origin, elem |-> Head(elems), rest |-> Tail(elems)]

ScalarTypes == {"str", "int", "float"}

SequenceTypes == {"set", "list", "tuple"}

\* the keys of TypedConfig._simple_type_map
simple_type_map_keys == ScalarTypes \cup SequenceTypes

\* _simple_type_map[name](value) for a scalar name
cast_scalar(name, value) ==
    CASE name = "str"   -> py_str(value)
      [] name = "int"   -> py_int(value)
      [] name = "float" -> py_float(value)

\* the generator of _to_seq without the strip of each element
RECURSIVE cast_elements_unstripped(_, _)
cast_elements_unstripped(parts, cls) ==
    IF parts = <<>> THEN Ok(<<>>)
    ELSE Eval(LAMBDA h :
                 IF h.kind # "ok" THEN h
                 ELSE Eval(LAMBDA r : IF r.kind # "ok" THEN r
                                      ELSE Ok(<<h.val>> \o r.val),
                           cast_elements_unstripped(Tail(parts), cls)),
              cast_scalar(cls, PyStr(parts[1])))

\* the generator of _to_seq: cls(_.strip()) for _ in seq.split(','), in order;
\* the first element that does not convert raises
RECURSIVE cast_elements(_, _)
cast_elements(parts, cls) ==
    IF parts = <<>> THEN Ok(<<>>)
    ELSE Eval(LAMBDA h :
                 IF h.kind # "ok" THEN h
                 ELSE Eval(LAMBDA r : IF r.kind # "ok" THEN r
                                      ELSE Ok(<<h.val>> \o r.val),
                           cast_elements(Tail(parts), cls)),
              cast_scalar(cls, PyStr(strip(parts[1]))))

\* _as_sequence(to)(seq, cls)
as_sequence(to, seq, cls) ==
    IF seq.t # "str" THEN Raise("AttributeError")
    ELSE Eval(LAMBDA r :
                 IF r.kind # "ok" THEN r
                 ELSE IF to = "set"
                      THEN Ok(Coll("set", {r.val[i] : i \in DOMAIN r.val}))
                      ELSE Ok(Coll(to, r.val)),
              cast_elements(split(seq.v, <<",">>), cls))

\* a cast that hands on the value of a type it does not know
cast_known(value, annotation) ==
    IF annotation.origin = "" /\ annotation.elem \in ScalarTypes
    THEN cast_scalar(annotation.elem, value)
    ELSE Ok(value)

\* TypedConfig._cast_for_annotation; the pattern name[name] does not match
\* a str annotation with several parameters, and the assert fails
cast_for_annotation(value, annotation) ==
    IF "rest" \in DOMAIN annotation /\ annotation.rest # <<>>
    THEN Raise("AssertionError")
    ELSE IF annotation.origin # ""
    THEN IF annotation.elem \notin ScalarTypes
              \/ annotation.origin \notin SequenceTypes
         THEN Raise("KeyError")
         ELSE as_sequence(annotation.origin, value, annotation.elem)
    ELSE IF annotation.elem \in SequenceTypes
         THEN as_sequence(annotation.elem, value, "str")
         ELSE IF annotation.elem \in ScalarTypes
              THEN cast_scalar(annotation.elem, value)
              ELSE Raise("KeyError")

----------------------------------------------------------------------------
(* Names *)

s_App == <<"A","p","p">>
s_APP == <<"A","P","P">>
s_Env == <<"E","n","v">>
s_CHANNELS == <<"C","H","A","N","N","E","L","S">>
s_NAME == <<"N","A","M","E">>
s_LIMIT == <<"L","I","M","I","T">>
s_RATIO == <<"R","A","T","I","O">>
s_TAGS == <<"T","A","G","S">>
s_OTHER == <<"O","T","H","E","R">>
s_HOST == <<"H","O","S","T">>
s_PORT == <<"P","O","R","T">>
s_IMAGE_CHANNEL == <<"I","M","A","G","E","_","C","H","A","N","N","E","L">>
s_ENABLED == <<"E","N","A","B","L","E","D">>
s_SENDGRID_API_KEY == <<"S","E","N","D","G","R","I","D","_","A","P","I","_","K","E","Y">>
s_RETRIES == <<"R","E","T","R","I","E","S">>
s_LIMITS == <<"L","I","M","I","T","S">>

\* welovebot.constants
WELOVEBOT_CONFIG_PREFIX_DEFAULT == <<"W","E","L","O","V","E","B","O","T">>

WELOVEBOT_CONFIG_PREFIX_ENVVAR == <<"W","E","L","O","V","E","B","O","T","_","C","O","N","F","I","G","_","P","R","E","F","I","X">>

----------------------------------------------------------------------------
(* Extension classes: name, base class, and the nested Config class *)

NoConfig == [declared |-> FALSE, annotations |-> <<>>, defaults |-> <<>>]

\* class Cog(BaseCog): declares no Config
Cog_Config == NoConfig

\* class WebCog(Cog)
WebCog_Config ==
    [declared    |-> TRUE,
     annotations |-> (s_HOST :> Ann("", "str")) @@ (s_PORT :> Ann("", "int")),
     defaults    |-> (s_HOST :> PyStr(<<"0",".","0",".","0",".","0">>)) @@ (s_PORT :> PyInt(8080))]

\* class ImagesHook(WebCog)
ImagesHook_Config ==
    [declared    |-> TRUE,
     annotations |-> (s_IMAGE_CHANNEL :> Ann("", "int")),
     defaults    |-> <<>>]

\* class Cleaner(Cog): the extension of the end-to-end scenario, with one
\* setting of every scalar type, two collections and one class default
Cleaner_Config ==
    [declared    |-> TRUE,
     annotations |-> (s_CHANNELS :> Ann("set", "int"))
                     @@ (s_NAME :> Ann("", "str"))
                     @@ (s_LIMIT :> Ann("", "int"))
                     @@ (s_RATIO :> Ann("", "float"))
                     @@ (s_TAGS :> Ann("list", "str")),
     defaults    |-> (s_LIMIT :> PyInt(5))]

\* class ImagesEmailHandler(_BaseHandler), images_handler.py: a setting of
\* type bool with a default, and a str; its Config hides the Config of
\* _BaseHandler(WebCog), which is left out of the hierarchy here
ImagesEmailHandler_Config ==
    [declared    |-> TRUE,
     annotations |-> (s_ENABLED :> Ann("", "bool"))
                     @@ (s_SENDGRID_API_KEY :> Ann("", "str")),
     defaults    |-> (s_ENABLED :> PyBool(FALSE))]

\* class Planner(Cog): an extension with settings of types that
\* _simple_type_map does not hold: Optional[int] and Dict[str, int]
Planner_Config ==
    [declared    |-> TRUE,
     annotations |-> (s_RETRIES :> Ann("optional", "int"))
                     @@ (s_LIMITS :> AnnStr("dict", <<"str", "int">>))
                     @@ (s_NAME :> Ann("", "str")),
     defaults    |-> <<>>]

ClassNames == {"Cog", "WebCog", "ImagesHook", "Cleaner", "ImagesEmailHandler",
               "Planner"}

ClassName(c) ==
    CASE c = "Cog"        -> <<"C","o","g">>
      [] c = "WebCog"     -> <<"W","e","b","C","o","g">>
      [] c = "ImagesHook" -> <<"I","m","a","g","e","s","H","o","o","k">>
      [] c = "Cleaner"    -> <<"C","l","e","a","n","e","r">>
      [] c = "ImagesEmailHandler" -> <<"I","m","a","g","e","s","E","m","a","i","l","H","a","n","d","l","e","r">>
      [] c = "Planner"    -> <<"P","l","a","n","n","e","r">>

\* the base class, "object" at the root
Base(c) ==
    CASE c = "Cog"        -> "object"
      [] c = "WebCog"     -> "Cog"
      [] c = "ImagesHook" -> "WebCog"
      [] c = "Cleaner"    -> "Cog"
      [] c = "ImagesEmailHandler" -> "WebCog"
      [] c = "Planner"    -> "Cog"

OwnConfig(c) ==
    CASE c = "Cog"        -> Cog_Config
      [] c = "WebCog"     -> WebCog_Config
      [] c = "ImagesHook" -> ImagesHook_Config
      [] c = "Cleaner"    -> Cleaner_Config
      [] c = "ImagesEmailHandler" -> ImagesEmailHandler_Config
      [] c = "Planner"    -> Planner_Config

\* the method resolution order of a class, most specific first
RECURSIVE Mro(_)
Mro(c) == IF c = "object" THEN <<>> ELSE <<c>> \o Mro(Base(c))

\* getattr(cls, 'Config', None): the Config of the nearest class that has one
RECURSIVE getattr_Config(_)
getattr_Config(c) ==
    IF c = "object" THEN NoConfig
    ELSE IF OwnConfig(c).declared THEN OwnConfig(c)
    ELSE getattr_Config(Base(c))

----------------------------------------------------------------------------
(* State *)

VARIABLES
    environ,        \* os.environ: name -> string
    arg_prefix,     \* the config_prefix argument of Bot(...): None or a str
    config_prefix,  \* bot.config_prefix after Bot.__init__
    ext,            \* the class of the extension (cog) under observation
    prefix,         \* prefix[c]: the prefix of the cog's source c
    overrides,      \* overrides[c]: the overrides dict of the cog's source c
    redis,          \* the key space of the Redis server of redis_config
    pc,             \* "idle", or "returned" while the caller holds a result
    last,           \* the call that returned last
    seen_keys,      \* the default argument `seen` of Config._seen_key
    messages        \* the messages of the config sources in the log, in order

\* The event loop and the handlers bound to listener events
VARIABLES
    import_error,   \* the exception out of the class bodies that bind, or "none"
    handlers,       \* the handlers bound by the decorators, in order
    fires,          \* fires[e]: how many times event e was dispatched
    ready,          \* the ready queue of the asyncio loop: task ids, first in first out
    tasks,          \* tasks[id]: the tasks created so far
    lock,           \* WebCog._lock: [value, waiters]
    site            \* WebCog._site: [set, created, binds]

\* Discovery of extensions
VARIABLES
    symbols,        \* the symbols of the scanned module, in the order of dir(mod)
    next_symbol,    \* the index of the symbol that discover_extension gets next
    cogs,           \* the cogs of the bot: name -> class, in order of registration
    calls,          \* the calls of add_cog, add_command, load_extension so far
    discovery,      \* "running", "done", or the exception that ended discovery
    mounts,         \* the sub-applications added to WebCog._web_app, in order
    startup,        \* main(): what was dispatched, the client, the exit status
    scan            \* discover_extensions: the locations given, the modules loaded

\* The JSON store and the image handlers
VARIABLES
    file,           \* the backing file of the JsonConfig
    json,           \* JsonConfig.json, the cached mapping, once it is loaded
    handler,        \* the image handler: its _cache, its _lock, the fetches made
    jobs,           \* the runs of the handler's event method, one per event
    client          \* the Meural client of the handler, and the calls made on it

vars_config == <<environ, arg_prefix, config_prefix, ext, prefix, overrides,
                 redis, pc, last, seen_keys, messages>>

vars_loop == <<import_error, handlers, fires, ready, tasks, lock, site>>

vars_discover == <<symbols, next_symbol, cogs, calls, discovery, mounts,
                   startup, scan>>

vars_store == <<file, json, handler, jobs, client>>

vars == <<vars_config, vars_loop, vars_discover, vars_store>>

\* WebCog._lock: Semaphore(), of value 1
Semaphore_value == 1

\* no handler is bound, nothing is scheduled
LoopIdle ==
    /\ import_error = "none"
    /\ handlers = <<>>
    /\ fires = <<>>
    /\ ready = <<>>
    /\ tasks = <<>>
    /\ lock = [value |-> Semaphore_value, waiters |-> <<>>]
    /\ site = [set |-> FALSE, created |-> 0, binds |-> 0]

\* the exit status of the interpreter when main() returns
main_exit == 0

\* main() has called Bot.run, which has not left discover_extensions
StartupIdle ==
    [failed |-> FALSE, dispatched |-> <<>>, client |-> FALSE, exited |-> FALSE,
     status |-> main_exit]

\* a class that does not derive from WebCog has no url_root
NotWebCog == [t |-> "notweb", v |-> <<>>]

\* discover_extensions was given one module, which is loaded
ScanIdle == [locations |-> <<>>, mods |-> <<>>]

\* no module is scanned
DiscoverIdle ==
    /\ symbols = <<>>
    /\ next_symbol = 1
    /\ cogs = <<>>
    /\ calls = <<>>
    /\ discovery = "done"
    /\ mounts = <<>>
    /\ startup = [StartupIdle EXCEPT !.dispatched = <<"run">>, !.client = TRUE]
    /\ scan = ScanIdle

\* WebCog.concurrency, the permits of the _lock of an instance
concurrency == 10

\* a new image handler of class impl, with a lock of n permits
Handler(impl, n) ==
    [impl |-> impl, cache |-> {}, permits |-> n, fetches |-> <<>>]

\* no store is open, no image is handled
\* _lock: ClassVar[Semaphore] = Semaphore(3)
Meural_lock_value == 3

\* Meural(...) after construction: no token, every permit of _lock free, the
\* _auth_lock of login free, and no call made; credentials tells whether
\* username and password are set
Meural(credentials) ==
    [token |-> None, credentials |-> credentials,
     permits |-> Meural_lock_value, waiters |-> <<>>,
     auth |-> [locked |-> FALSE, waiters |-> <<>>],
     calls |-> <<>>]

StoreIdle ==
    /\ file = [kind |-> "absent", doc |-> None, opened |-> FALSE]
    /\ json = [loaded |-> FALSE, d |-> <<>>]
    /\ handler = Handler("_BaseHandler", concurrency)
    /\ jobs = <<>>
    /\ client = Meural(FALSE)

\* the cog's cog_config (a CogConfig) and bot_config (a BotConfig)
EnvSources == {"cog_config", "bot_config"}

\* the leaf sources: the two above and one RedisConfig
Sources == EnvSources \cup {"redis_config"}

\* dict[key] = value
Put(d, k, x) == [n \in DOMAIN d \cup {k} |-> IF n = k THEN x ELSE d[n]]

\* dict.get(key), None when absent
DictGet(d, k) == IF k \in DOMAIN d THEN d[k] ELSE None

----------------------------------------------------------------------------
(* Construction: the process prefix and the prefixes of the sources *)

\* PrefixConfig.set_prefix that does not read the environment
set_prefix_no_environ(p, env) ==
    IF ~Falsy(p) THEN p.v ELSE WELOVEBOT_CONFIG_PREFIX_DEFAULT

\* PrefixConfig.set_prefix: prefix or environ.get(default_envvar, default_prefix)
set_prefix(p, env) ==
    IF ~Falsy(p) THEN p.v
    ELSE IF WELOVEBOT_CONFIG_PREFIX_ENVVAR \in DOMAIN env
         THEN env[WELOVEBOT_CONFIG_PREFIX_ENVVAR]
         ELSE WELOVEBOT_CONFIG_PREFIX_DEFAULT

\* BotConfig.__post_init__: set_prefix(getattr(bot, 'config_prefix', None))
BotConfig_post_init(bot_config_prefix, env) == set_prefix(bot_config_prefix, env)

\* CogConfig.__post_init__
CogConfig_post_init(bot_config_prefix, env, cls) ==
    join_prefix(<<BotConfig_post_init(bot_config_prefix, env),
                  snake_case(Key(ClassName(cls)))>>).s

\* Bot.__init__: config_prefix or self.config.prefix, where self.config is
\* a BotConfig built while the bot has no config_prefix attribute yet
Bot_init(arg, env) ==
    IF ~Falsy(arg) THEN arg.v ELSE BotConfig_post_init(None, env)

\* Cog.cog_config and Cog.bot_config
Cog_prefixes(bot_config_prefix, env, cls) ==
    [cog_config |-> CogConfig_post_init(PyStr(bot_config_prefix), env, cls),
     bot_config |-> BotConfig_post_init(PyStr(bot_config_prefix), env)]

\* Cog.config and Cog.config_safe: the members of the chain
Cog_chain == <<"cog_config", "bot_config">>

----------------------------------------------------------------------------
(* Lookup *)

\* Config._key, overridden by PrefixConfig._key
Config_key(c, k) ==
    IF c \in EnvSources THEN PrefixConfig_key(prefix[c], k) ELSE k

\* EnvConfig._getitem: self.overrides.get(key) or environ[key]
EnvConfig_getitem(c, K) ==
    LET o == DictGet(overrides[c], K.s)
    IN  IF ~Falsy(o) THEN Ok(o)
        ELSE IF K.s \in DOMAIN environ THEN Ok(PyStr(environ[K.s]))
        ELSE Raise("KeyError")

\* a CogConfig that reads the class attribute of ext.Config first
CogConfig_getitem_default_first(c, K) ==
    LET d == getattr_Config(ext).defaults
    IN  Eval(LAMBDA a : IF a \in DOMAIN d THEN Ok(d[a]) ELSE EnvConfig_getitem(c, K),
             PrefixConfig_unkey(K))

\* CogConfig._getitem: on a miss, the class attribute of ext.Config
CogConfig_getitem(c, K) ==
    LET d == getattr_Config(ext).defaults
    IN  Eval(LAMBDA r :
                IF r.kind # "KeyError" THEN r
                ELSE Eval(LAMBDA a : IF a \in DOMAIN d THEN Ok(d[a]) ELSE r,
                          PrefixConfig_unkey(K)),
             EnvConfig_getitem(c, K))

\* RedisConfig._getitem
RedisConfig_getitem(K) ==
    LET ret == DictGet(redis, K.s)
    IN  IF Falsy(ret) THEN Raise("KeyError") ELSE Ok(ret)

\* self._getitem(key), by the class of the source
getitem(c, K) ==
    CASE c = "cog_config"   -> CogConfig_getitem(c, K)
      [] c = "bot_config"   -> EnvConfig_getitem(c, K)
      [] c = "redis_config" -> RedisConfig_getitem(K)

Consulted(c, K) == [c |-> c, key |-> K.s]

\* Config.__getitem__ of a leaf source: the outcome, and the stored key read
Config_getitem(c, k) ==
    Eval(LAMBDA K : [out |-> getitem(c, K), consulted |-> <<Consulted(c, K)>>],
         Config_key(c, k))

\* ChainConfig._getitem, from member i on
RECURSIVE ChainConfig_getitem(_, _, _)
ChainConfig_getitem(configs, i, k) ==
    LET c == configs[i]
        Rest(r) ==
            Eval(LAMBDA rest : [out       |-> rest.out,
                                consulted |-> r.consulted \o rest.consulted],
                 ChainConfig_getitem(configs, i + 1, k))
    IN  Eval(LAMBDA r : IF r.out.kind = "KeyError" /\ c # configs[Len(configs)]
                        THEN Rest(r)
                        ELSE r,
             Config_getitem(c, k))

\* TypedConfig._getitem with the test of the declaration after the lookup
TypedConfig_getitem_late(types, configs, k) ==
    Eval(LAMBDA r :
            IF k.s \notin DOMAIN types.annotations
            THEN [out |-> Raise("TypeError"), consulted |-> r.consulted]
            ELSE IF r.out.kind # "ok" THEN r
            ELSE [out       |-> cast_for_annotation(r.out.val,
                                                    types.annotations[k.s]),
                  consulted |-> r.consulted],
         ChainConfig_getitem(configs, 1, k))

\* TypedConfig._getitem of a TypedChainConfig
TypedConfig_getitem(types, configs, k) ==
    IF k.s \notin DOMAIN types.annotations
    THEN [out |-> Raise("TypeError"), consulted |-> <<>>]
    ELSE Eval(LAMBDA r :
                 IF r.out.kind # "ok" THEN r
                 ELSE [out       |-> cast_for_annotation(r.out.val,
                                                         types.annotations[k.s]),
                       consulted |-> r.consulted],
              ChainConfig_getitem(configs, 1, k))

\* The objects a caller holds: a leaf source, a ChainConfig, a TypedChainConfig
Leaf(c) == [cls |-> "leaf", configs |-> <<c>>]

Chain(configs) == [cls |-> "ChainConfig", configs |-> configs]

TypedChain(configs) == [cls |-> "TypedChainConfig", configs |-> configs]

\* Cog.config
Cog_config == Chain(Cog_chain)

\* Cog.config_safe
Cog_config_safe == TypedChain(Cog_chain)

\* target[key]
Target_getitem(t, k) ==
    CASE t.cls = "leaf"             -> Config_getitem(t.configs[1], k)
      [] t.cls = "ChainConfig"      -> ChainConfig_getitem(t.configs, 1, k)
      [] t.cls = "TypedChainConfig" ->
            TypedConfig_getitem(getattr_Config(ext), t.configs, k)

\* Config.get without its except clause
Config_get_uncaught(t, k, default) ==
    Target_getitem(t, IF t.cls = "leaf" THEN Config_key(t.configs[1], k) ELSE k)

\* Config.get: key = self._key(key); return self[key]; default on KeyError
Config_get(t, k, default) ==
    Eval(LAMBDA K :
            Eval(LAMBDA r : IF r.out.kind = "KeyError"
                            THEN [out |-> Ok(default), consulted |-> r.consulted]
                            ELSE r,
                 Target_getitem(t, K)),
         IF t.cls = "leaf" THEN Config_key(t.configs[1], k) ELSE k)

----------------------------------------------------------------------------
(* The log of the sources: Config._seen_key, _log_miss_msg, _log_hit_msg,
   _log_default_msg *)

\* the class attribute `logging`: True in Config, False in ChainConfig (and
\* so in TypedChainConfig) and in RedisConfig
Config_logging(c) == c \in EnvSources

Log == [seen |-> seen_keys, messages |-> messages]

\* _log_miss_msg and its like with no test of the keys seen
log_msg_unseen(lg, c, msg, key) ==
    IF Config_logging(c)
    THEN [seen |-> lg.seen \cup {key},
          messages |-> Append(lg.messages, [msg |-> msg, key |-> key])]
    ELSE lg

\* `if self.logging and not self._seen_key(key): logger.debug(msg: key)`,
\* where _seen_key adds the key to the one set `seen` of the process
log_msg(lg, c, msg, key) ==
    IF Config_logging(c) /\ key \notin lg.seen
    THEN [seen |-> lg.seen \cup {key},
          messages |-> Append(lg.messages, [msg |-> msg, key |-> key])]
    ELSE lg

\* Config.__getitem__ of the sources consulted by a lookup, from entry i on:
\* each logs its miss on KeyError, else its hit
RECURSIVE getitem_log(_, _, _)
getitem_log(lg, consulted, i) ==
    IF i > Len(consulted) THEN lg
    ELSE Eval(LAMBDA e :
                 getitem_log(log_msg(lg, e.c,
                                     IF getitem(e.c, KeyT(e.key)).kind = "KeyError"
                                     THEN "miss" ELSE "hit",
                                     e.key),
                             consulted, i + 1),
              consulted[i])

\* Config.get: on KeyError self._log_default_msg(key), which a chain does
\* not log
Config_get_log(lg, t, r) ==
    Eval(LAMBDA after :
            IF t.cls = "leaf" /\ r.consulted # <<>>
               /\ getitem(t.configs[1], KeyT(r.consulted[1].key)).kind = "KeyError"
            THEN log_msg(after, t.configs[1], "default", r.consulted[1].key)
            ELSE after,
         getitem_log(lg, r.consulted, 1))

\* the log after a call: as it was when logging is off
Logs(lg) ==
    /\ seen_keys' = lg.seen
    /\ messages' = lg.messages

----------------------------------------------------------------------------
(* Assignment *)

Stores(o, r) == [overrides |-> o, redis |-> r]

\* Config.__setitem__ of a leaf source: EnvConfig._setitem, RedisConfig._setitem
Config_setitem(c, k, x) ==
    Eval(LAMBDA K :
            IF c \in EnvSources
            THEN [out    |-> Ok(None),
                  stores |-> Stores([overrides EXCEPT ![c] = Put(@, K.s, x)],
                                    redis)]
            ELSE [out    |-> Ok(None),
                  stores |-> Stores(overrides, Put(redis, K.s, py_str(x).val))],
         Config_key(c, k))

\* ChainConfig._setitem: no leaf source raises RuntimeError, the first one stores
ChainConfig_setitem(configs, k, x) == Config_setitem(configs[1], k, x)

\* TypedConfig._setitem of a TypedChainConfig
TypedConfig_setitem(types, configs, k, x) ==
    IF k.s \notin DOMAIN types.annotations
    THEN [out |-> Raise("TypeError"), stores |-> Stores(overrides, redis)]
    ELSE Eval(LAMBDA v :
                 IF v.kind # "ok"
                 THEN [out |-> v, stores |-> Stores(overrides, redis)]
                 ELSE ChainConfig_setitem(configs, k, v.val),
              cast_for_annotation(x, types.annotations[k.s]))

\* target[key] = value
Target_setitem(t, k, x) ==
    CASE t.cls = "leaf"             -> Config_setitem(t.configs[1], k, x)
      [] t.cls = "ChainConfig"      -> ChainConfig_setitem(t.configs, k, x)
      [] t.cls = "TypedChainConfig" ->
            TypedConfig_setitem(getattr_Config(ext), t.configs, k, x)

----------------------------------------------------------------------------
(* The calls a client makes, one action each.  A call returns in one step
   and leaves its record in last; the caller then goes on (Return). *)

NoCall == [op |-> "none"]

Call(op, t, k, d, x, r) ==
    [op |-> op, target |-> t, key |-> k, dflt |-> d, value |-> x,
     out |-> r.out, consulted |-> r.consulted]

\* value = target[key]; logging: whether the log of the sources is followed
IndexLogging(targets, keys, logging) ==
    /\ pc = "idle"
    /\ \E t \in targets, k \in keys :
          \E r \in {Target_getitem(t, k)} :
              /\ last' = Call("index", t, k, None, None, r)
              /\ Logs(IF logging THEN getitem_log(Log, r.consulted, 1) ELSE Log)
    /\ pc' = "returned"
    /\ UNCHANGED <<environ, arg_prefix, config_prefix, ext, prefix,
                   overrides, redis>>
    /\ UNCHANGED <<vars_loop, vars_discover, vars_store>>

Index(targets, keys) == IndexLogging(targets, keys, FALSE)

\* value = target.get(key, default)
GetLogging(targets, keys, defaults, logging) ==
    /\ pc = "idle"
    /\ \E t \in targets, k \in keys, d \in defaults :
          \E r \in {Config_get(t, k, d)} :
              /\ last' = Call("get", t, k, d, None, r)
              /\ Logs(IF logging THEN Config_get_log(Log, t, r) ELSE Log)
    /\ pc' = "returned"
    /\ UNCHANGED <<environ, arg_prefix, config_prefix, ext, prefix,
                   overrides, redis>>
    /\ UNCHANGED <<vars_loop, vars_discover, vars_store>>

Get(targets, keys, defaults) == GetLogging(targets, keys, defaults, FALSE)

\* target[key] = value
SetItem(targets, items) ==
    /\ pc = "idle"
    /\ \E t \in targets, kx \in items :
          \E r \in {Target_setitem(t, kx[1], kx[2])} :
              /\ overrides' = r.stores.overrides
              /\ redis' = r.stores.redis
              /\ last' = Call("set", t, kx[1], None, kx[2],
                              [out |-> r.out, consulted |-> <<>>])
    /\ pc' = "returned"
    /\ UNCHANGED <<environ, arg_prefix, config_prefix, ext, prefix,
                   seen_keys, messages>>
    /\ UNCHANGED <<vars_loop, vars_discover, vars_store>>

\* the caller takes the result
Return ==
    /\ pc = "returned"
    /\ pc' = "idle"
    /\ last' = NoCall
    /\ UNCHANGED <<environ, arg_prefix, config_prefix, ext, prefix,
                   overrides, redis, seen_keys, messages>>
    /\ UNCHANGED <<vars_loop, vars_discover, vars_store>>

\* The state after Bot(config_prefix=arg) and the construction of one cog of
\* class cls, in environment env
ConfigConstructed(arg, env, cls) ==
    /\ environ = env
    /\ arg_prefix = arg
    /\ ext = cls
    /\ config_prefix = Bot_init(arg, env)
    /\ prefix = Cog_prefixes(Bot_init(arg, env), env, cls)
    /\ overrides = [c \in EnvSources |-> <<>>]
    /\ redis = <<>>
    /\ pc = "idle"
    /\ last = NoCall
    /\ seen_keys = {}
    /\ messages = <<>>

\* the same, with no handler bound and no module scanned
Constructed(arg, env, cls) ==
    /\ ConfigConstructed(arg, env, cls)
    /\ LoopIdle
    /\ DiscoverIdle
    /\ StoreIdle

\* an environment with the given variables; a value of AbsentVar unsets one
AbsentVar == <<"<", "u", "n", "s", "e", "t", ">">>

RECURSIVE EnvOf(_)
EnvOf(pairs) ==
    IF pairs = <<>> THEN <<>>
    ELSE IF pairs[1][2] = AbsentVar THEN EnvOf(Tail(pairs))
    ELSE Put(EnvOf(Tail(pairs)), pairs[1][1], pairs[1][2])

\* the default passed to get(): the implicit None, or a value no source holds
s_dflt == <<"d","f","l","t">>

Defaults == {None, PyStr(s_dflt)}

\* all chains of 1..n members
Chains(members, n) ==
    {Chain(cs) : cs \in UNION {[1..m -> members] : m \in 1..n}}

----------------------------------------------------------------------------
(* SpecChain: chains of any order and length over the three sources, one
   str setting (NAME) and one setting with a class default (LIMIT) *)

MaxChainLen == 3

n_APP_CLEANER_NAME == <<"A","P","P","_","_","C","L","E","A","N","E","R","_","_","N","A","M","E">>

n_APP_NAME == <<"A","P","P","_","_","N","A","M","E">>

s_empty == <<>>

s_c == <<"c">>

s_b == <<"b">>

s_o == <<"o">>

EnvsChain ==
    {EnvOf(<<<<n_APP_CLEANER_NAME, a>>, <<n_APP_NAME, b>>>>) :
        a \in {AbsentVar, s_empty, s_c}, b \in {AbsentVar, s_empty, s_b}}

TargetsChain ==
    {Leaf(c) : c \in Sources} \cup Chains(Sources, MaxChainLen)
        \cup {Cog_config_safe}

KeysChain == {Key(s_NAME), Key(s_LIMIT), Key(s_OTHER)}

SetTargetsChain == {Leaf(c) : c \in Sources} \cup {Cog_config}

SetItemsChain == {<<Key(s_NAME), PyStr(s_empty)>>, <<Key(s_NAME), PyStr(s_o)>>}

InitChain == \E env \in EnvsChain : Constructed(PyStr(s_APP), env, "Cleaner")

NextChain ==
    \/ Index(TargetsChain, KeysChain)
    \/ Get(TargetsChain, KeysChain, Defaults)
    \/ SetItem(SetTargetsChain, SetItemsChain)
    \/ Return

SpecChain == InitChain /\ [][NextChain]_vars

----------------------------------------------------------------------------
(* SpecTyped: the typed chain of a Cleaner cog under prefix APP; at most one
   variable of the environment is set, to each raw string in turn *)

n_APP_CLEANER_CHANNELS == <<"A","P","P","_","_","C","L","E","A","N","E","R","_","_","C","H","A","N","N","E","L","S">>

n_APP_CLEANER_LIMIT == <<"A","P","P","_","_","C","L","E","A","N","E","R","_","_","L","I","M","I","T">>

n_APP_CLEANER_RATIO == <<"A","P","P","_","_","C","L","E","A","N","E","R","_","_","R","A","T","I","O">>

n_APP_CLEANER_TAGS == <<"A","P","P","_","_","C","L","E","A","N","E","R","_","_","T","A","G","S">>

n_APP_CLEANER_OTHER == <<"A","P","P","_","_","C","L","E","A","N","E","R","_","_","O","T","H","E","R">>

s_10_20_30 == <<"1","0",",","2","0",",","3","0">>

s_7_8 == <<" ","7"," ",",","8">>

s_x == <<"x">>

s_1_5 == <<"1",".","5">>

s_7 == <<"7">>

RawValues == {s_empty, s_10_20_30, s_7_8, s_x, s_1_5, s_7}

NamesTyped ==
    {n_APP_CLEANER_CHANNELS, n_APP_CLEANER_NAME, n_APP_CLEANER_LIMIT,
     n_APP_CLEANER_RATIO, n_APP_CLEANER_TAGS}

EnvsTyped ==
    {<<>>} \cup {EnvOf(<<<<n, raw>>>>) : n \in NamesTyped, raw \in RawValues}

TargetsTyped == {Cog_config_safe, Cog_config}

DeclaredKeys == {s_CHANNELS, s_NAME, s_LIMIT, s_RATIO, s_TAGS}

KeysTyped == {Key(k) : k \in DeclaredKeys \cup {s_OTHER}}

\* the values v of each scalar setting whose string form is assigned
ScalarValues ==
    {<<s_NAME, PyStr(s_empty)>>, <<s_NAME, PyStr(s_x)>>,
     <<s_LIMIT, PyInt(0)>>, <<s_LIMIT, PyInt(7)>>,
     <<s_RATIO, PyFloat(0, 0)>>, <<s_RATIO, PyFloat(15, 1)>>}

SetItemsTyped ==
    {<<Key(kv[1]), py_str(kv[2]).val>> : kv \in ScalarValues}
        \cup {<<Key(s_LIMIT), PyStr(s_x)>>, <<Key(s_OTHER), PyStr(s_x)>>}

InitTyped == \E env \in EnvsTyped : Constructed(PyStr(s_APP), env, "Cleaner")

NextTyped ==
    \/ Index(TargetsTyped, KeysTyped)
    \/ Get(TargetsTyped, KeysTyped, Defaults)
    \/ SetItem({Cog_config_safe}, SetItemsTyped)
    \/ Return

SpecTyped == InitTyped /\ [][NextTyped]_vars

----------------------------------------------------------------------------
(* SpecPrefix: every way of giving the process prefix, for a cog without and
   a cog with an ancestor that declares a Config *)

n_APP_WEB_COG_HOST == <<"A","P","P","_","_","W","E","B","_","C","O","G","_","_","H","O","S","T">>

n_APP_HOST == <<"A","P","P","_","_","H","O","S","T">>

s_w == <<"w">>

s_h == <<"h">>

PrefixArgs == {None, PyStr(s_empty), PyStr(s_App), PyStr(s_APP)}

EnvsPrefix ==
    {EnvOf(<<<<WELOVEBOT_CONFIG_PREFIX_ENVVAR, e>>,
             <<n_APP_WEB_COG_HOST, w>>, <<n_APP_HOST, h>>>>) :
        e \in {AbsentVar, s_empty, s_Env},
        w \in {AbsentVar, s_w},
        h \in {AbsentVar, s_h}}

ExtsPrefix == {"Cleaner", "ImagesHook"}

TargetsPrefix ==
    {Leaf(c) : c \in EnvSources} \cup {Cog_config, Cog_config_safe}

\* plain keys, and the keys that the two prefixed sources have produced
KeysPrefix ==
    {Key(s_HOST), Key(s_IMAGE_CHANNEL)}
        \cup {PrefixConfig_key(prefix[c], Key(s_HOST)) : c \in EnvSources}

SetItemsPrefix == {<<Key(s_HOST), PyStr(s_o)>>}

InitPrefix ==
    \E arg \in PrefixArgs, env \in EnvsPrefix, cls \in ExtsPrefix :
        Constructed(arg, env, cls)

NextPrefix ==
    \/ Index(TargetsPrefix, KeysPrefix)
    \/ Get(TargetsPrefix, KeysPrefix, {PyStr(s_dflt)})
    \/ SetItem({Leaf(c) : c \in EnvSources}, SetItemsPrefix)
    \/ Return

SpecPrefix == InitPrefix /\ [][NextPrefix]_vars

----------------------------------------------------------------------------
(* Properties of the chain (SpecChain) *)

\* the name under which source c stores key k
StoredName(c, k) ==
    IF c \in EnvSources /\ ~k.tag THEN upper(prefix[c] \o Sep \o k.s) ELSE k.s

\* what source c holds for key k, layer by layer; None where it holds nothing
OverrideOf(c, k) ==
    IF c \in EnvSources THEN DictGet(overrides[c], StoredName(c, k)) ELSE None

EnvironOf(c, k) ==
    IF c \in EnvSources /\ StoredName(c, k) \in DOMAIN environ
    THEN PyStr(environ[StoredName(c, k)])
    ELSE None

ClassDefaultOf(c, k) ==
    IF c = "cog_config" THEN DictGet(getattr_Config(ext).defaults, k.s) ELSE None

RedisOf(c, k) ==
    IF c = "redis_config" THEN DictGet(redis, StoredName(c, k)) ELSE None

Layers(c, k) ==
    <<OverrideOf(c, k), EnvironOf(c, k), RedisOf(c, k), ClassDefaultOf(c, k)>>

\* key k is missing in every layer of every member of target t
MissingEverywhere(t, k) ==
    \A i \in DOMAIN t.configs :
        \A j \in 1..4 : Layers(t.configs[i], k)[j] = None

\* the sources of the records of a consulted trace, in order
SourcesOf(consulted) == [i \in DOMAIN consulted |-> consulted[i].c]

\* C1: a chain lookup returns the outcome of the first member, in chain
\* order, whose own lookup of the key does not miss; the members up to that
\* one are consulted and none after it; the chain lookup misses (KeyError)
\* only if every member misses.
C1_FirstHitWins ==
    (last.op = "index" /\ last.target.cls = "ChainConfig") =>
        LET configs == last.target.configs
            hits == {i \in DOMAIN configs :
                        Config_getitem(configs[i], last.key).out.kind # "KeyError"}
        IN  IF hits = {} THEN last.out.kind = "KeyError"
            ELSE LET f == CHOOSE i \in hits : \A j \in hits : i <= j
                 IN  /\ last.out = Config_getitem(configs[f], last.key).out
                     /\ SourcesOf(last.consulted) = SubSeq(configs, 1, f)

\* C4, as stated: on every source and every chain, typed or not, get(key,
\* default) returns exactly default and raises nothing whenever the key is
\* missing in every layer.
C4_GetDefaultAnyChain ==
    (last.op = "get" /\ MissingEverywhere(last.target, last.key)) =>
        last.out = Ok(last.dflt)

\* C4, amended: on every source and every chain, get(key, default) returns
\* exactly default and raises nothing whenever the key is missing in every
\* layer and, on a typed chain, is declared in the schema; the call leaves
\* the overrides and the stored values of every source unchanged.
C4_GetDefault ==
    [][last'.op = "get" =>
          \A t \in {last'.target}, k \in {last'.key} :
              (/\ MissingEverywhere(t, k)
               /\ t.cls = "TypedChainConfig" =>
                      k.s \in DOMAIN getattr_Config(ext).annotations)
              => (/\ last'.out = Ok(last'.dflt)
                  /\ overrides' = overrides
                  /\ redis' = redis)]_vars

\* a get of a key missing in all of two or more members returned the default
C4_Witness ==
    /\ last.op = "get"
    /\ Len(last.target.configs) >= 2
    /\ MissingEverywhere(last.target, last.key)
    /\ last.dflt = PyStr(s_dflt)
    /\ last.out = Ok(PyStr(s_dflt))

\* C9: on every source, a key whose stored value is the empty string is a hit
\* that returns the empty string, and a miss is reported only for a key with
\* no stored value, however the value came to be stored.
C9_EmptyIsHit ==
    (last.op = "index" /\ last.target.cls = "leaf") =>
        LET c == last.target.configs[1]
            held == {j \in 1..3 : Layers(c, last.key)[j] # None}
        IN  /\ last.out.kind = "KeyError" =>
                \A j \in 1..4 : Layers(c, last.key)[j] = None
            /\ (held # {} /\
                Layers(c, last.key)[CHOOSE j \in held : \A i \in held : j <= i]
                    = PyStr(s_empty))
                => last.out = Ok(PyStr(s_empty))

----------------------------------------------------------------------------
(* Properties of the typed chain (SpecTyped) *)

\* the environment variable of each setting of Cleaner under prefix APP
NameTyped(k) ==
    CASE k = s_CHANNELS -> n_APP_CLEANER_CHANNELS
      [] k = s_NAME     -> n_APP_CLEANER_NAME
      [] k = s_LIMIT    -> n_APP_CLEANER_LIMIT
      [] k = s_RATIO    -> n_APP_CLEANER_RATIO
      [] k = s_TAGS     -> n_APP_CLEANER_TAGS
      [] k = s_OTHER    -> n_APP_CLEANER_OTHER

\* the raw string that the environment alone holds for setting k: the
\* variable is set to raw and the cog's source has no override for it
RawIs(k, raw) ==
    /\ NameTyped(k) \notin DOMAIN overrides["cog_config"]
    /\ NameTyped(k) \in DOMAIN environ
    /\ environ[NameTyped(k)] = raw

\* the elements of each raw string, split at the commas and trimmed
ElementsOf(raw) ==
    CASE raw = s_10_20_30 -> <<<<"1","0">>, <<"2","0">>, <<"3","0">>>>
      [] raw = s_7_8      -> <<<<"7">>, <<"8">>>>
      [] raw = s_x        -> <<<<"x">>>>
      [] raw = s_1_5      -> <<<<"1",".","5">>>>
      [] raw = s_7        -> <<<<"7">>>>

NumberOf(e) ==
    CASE e = <<"1","0">> -> 10
      [] e = <<"2","0">> -> 20
      [] e = <<"3","0">> -> 30
      [] e = <<"7">>     -> 7
      [] e = <<"8">>     -> 8

IsTypedRead == last.op \in {"index", "get"} /\ last.target = Cog_config_safe

\* C2: a lookup of a declared key on the typed chain of class Cleaner under
\* prefix APP consults APP__CLEANER__<KEY> first; when that variable holds a
\* comma-separated string, CHANNELS (a set of int) is the set of its trimmed
\* elements as integers and TAGS (a list of str) the list of its trimmed
\* elements; APP__CLEANER__CHANNELS = "10,20,30" reads as {10, 20, 30}.
C2_TypedCollection ==
    (IsTypedRead /\ last.key.s \in DeclaredKeys) =>
        /\ last.consulted[1] = [c |-> "cog_config", key |-> NameTyped(last.key.s)]
        /\ \A raw \in {s_10_20_30, s_7_8, s_7} :
              (last.key.s = s_CHANNELS /\ RawIs(s_CHANNELS, raw)) =>
                  last.out = Ok(Coll("set",
                      {PyInt(NumberOf(ElementsOf(raw)[i])) :
                          i \in DOMAIN ElementsOf(raw)}))
        /\ \A raw \in RawValues \ {s_empty} :
              (last.key.s = s_TAGS /\ RawIs(s_TAGS, raw)) =>
                  last.out = Ok(Coll("list",
                      [i \in DOMAIN ElementsOf(raw) |-> PyStr(ElementsOf(raw)[i])]))

\* the worked example was read: CHANNELS from "10,20,30"
C2_Witness ==
    /\ IsTypedRead
    /\ last.key = Key(s_CHANNELS)
    /\ RawIs(s_CHANNELS, s_10_20_30)
    /\ last.out = Ok(Coll("set", {PyInt(10), PyInt(20), PyInt(30)}))
    /\ last.consulted[1].key = n_APP_CLEANER_CHANNELS

\* the raw strings that are no integer literal, and no float literal
NotAnInt == {s_empty, s_10_20_30, s_7_8, s_x, s_1_5}

NotAFloat == {s_empty, s_10_20_30, s_7_8, s_x}

\* C3: on the typed chain, index and get(key, default) alike, an undeclared
\* key raises TypeError with no source consulted, and a declared int or
\* float key whose raw value does not parse raises ValueError; the default
\* is not returned in place of either.
C3_TypedErrors ==
    IsTypedRead =>
        /\ last.key.s \notin DeclaredKeys =>
              (last.out.kind = "TypeError" /\ last.consulted = <<>>)
        /\ \A raw \in NotAnInt :
              (last.key.s = s_LIMIT /\ RawIs(s_LIMIT, raw)) =>
                  last.out.kind = "ValueError"
        /\ \A raw \in NotAFloat :
              (last.key.s = s_RATIO /\ RawIs(s_RATIO, raw)) =>
                  last.out.kind = "ValueError"

\* a get with a default raised ValueError on LIMIT = "x"
C3_Witness ==
    /\ IsTypedRead
    /\ last.op = "get"
    /\ last.dflt = PyStr(s_dflt)
    /\ last.key = Key(s_LIMIT)
    /\ RawIs(s_LIMIT, s_x)
    /\ last.out.kind = "ValueError"

\* C5: an empty raw string for a key declared as a collection reads as the
\* empty collection of the declared type.
C5_EmptyCollection ==
    IsTypedRead =>
        /\ (last.key.s = s_CHANNELS /\ RawIs(s_CHANNELS, s_empty)) =>
              last.out = Ok(Coll("set", {}))
        /\ (last.key.s = s_TAGS /\ RawIs(s_TAGS, s_empty)) =>
              last.out = Ok(Coll("list", <<>>))

\* C6: for every scalar setting and value v of its type, after the string
\* form of v is assigned through the typed chain a read of the setting
\* through the typed chain returns v, whatever the environment holds.
C6_ScalarRoundTrip ==
    (last.op = "set" /\ last.target = Cog_config_safe) =>
        \A kv \in ScalarValues :
            (last.key = Key(kv[1]) /\ last.value = py_str(kv[2]).val) =>
                Target_getitem(Cog_config_safe, last.key).out = Ok(kv[2])

----------------------------------------------------------------------------
(* Properties of the prefixes (SpecPrefix) *)

n_APP_CLEANER_HOST == <<"A","P","P","_","_","C","L","E","A","N","E","R","_","_","H","O","S","T">>

s_ENV == <<"E","N","V">>

\* the upper-snake form of the name of each class
UpperSnakeName(c) ==
    CASE c = "Cog"        -> <<"C","O","G">>
      [] c = "WebCog"     -> <<"W","E","B","_","C","O","G">>
      [] c = "ImagesHook" -> <<"I","M","A","G","E","S","_","H","O","O","K">>
      [] c = "Cleaner"    -> <<"C","L","E","A","N","E","R">>

\* the upper-case form of each process prefix
UpperPrefix(p) ==
    CASE p = s_App -> s_APP
      [] p = s_Env -> s_ENV
      [] OTHER     -> p

\* C7: the key construction of a prefixed source returns a key that the
\* source has already produced unchanged, and get(k, d) and indexing [k] on
\* one source read the same stored key: the prefixed name of a plain key,
\* the key itself when it is already prefixed.
C7_KeyIdempotent ==
    /\ \A c \in EnvSources, k \in KeysPrefix :
          PrefixConfig_key(prefix[c], PrefixConfig_key(prefix[c], k))
              = PrefixConfig_key(prefix[c], k)
    /\ (last.op \in {"index", "get"} /\ last.target.cls = "leaf") =>
          last.consulted = <<[c   |-> last.target.configs[1],
                              key |-> StoredName(last.target.configs[1],
                                                 last.key)]>>

\* a get of the plain key HOST on the cog's source read APP__CLEANER__HOST
C7_Witness ==
    /\ last.op = "get"
    /\ last.target = Leaf("cog_config")
    /\ last.key = Key(s_HOST)
    /\ ext = "Cleaner"
    /\ last.consulted = <<[c |-> "cog_config", key |-> n_APP_CLEANER_HOST]>>

\* the prefixes of one source for every class of the list that declares a
\* Config, in the order of the list
RECURSIVE HierarchyPrefixes(_)
HierarchyPrefixes(classes) ==
    IF classes = <<>> THEN <<>>
    ELSE (IF OwnConfig(classes[1]).declared
          THEN <<UpperPrefix(config_prefix) \o Sep \o UpperSnakeName(classes[1])>>
          ELSE <<>>)
         \o HierarchyPrefixes(Tail(classes))

\* C8: the chain of an extension has one source prefixed
\* <process-prefix>__<TypeName> for every class of its hierarchy that declares
\* a Config, most specific first, then one source with the process prefix
\* alone; a setting set only at the prefix of the ancestor WebCog is found
\* by a lookup of its subclass ImagesHook.
C8_HierarchyChain ==
    /\ [i \in DOMAIN Cog_chain |-> prefix[Cog_chain[i]]]
          = HierarchyPrefixes(Mro(ext)) \o <<config_prefix>>
    /\ (/\ last.op = "index"
        /\ last.target = Cog_config
        /\ last.key = Key(s_HOST)
        /\ ext = "ImagesHook"
        /\ UpperPrefix(config_prefix) = s_APP
        /\ n_APP_WEB_COG_HOST \in DOMAIN environ)
       => last.out = Ok(PyStr(environ[n_APP_WEB_COG_HOST]))

\* C10, as stated: the process prefix is the config_prefix argument if one
\* is given, else the bootstrap variable if set, else the default; the
\* prefix of the extension's source is that process prefix, '__', and the
\* upper-snake class name.
C10_PrefixAsStated ==
    /\ config_prefix =
          IF arg_prefix # None THEN arg_prefix.v
          ELSE IF WELOVEBOT_CONFIG_PREFIX_ENVVAR \in DOMAIN environ
               THEN environ[WELOVEBOT_CONFIG_PREFIX_ENVVAR]
               ELSE WELOVEBOT_CONFIG_PREFIX_DEFAULT
    /\ prefix["cog_config"] = config_prefix \o Sep \o UpperSnakeName(ext)

\* C10, amended: the process prefix is the config_prefix argument if one is
\* given and is not empty, else the bootstrap variable if set, else the
\* default; the prefix of the extension's source is the upper-case form of
\* that process prefix, '__', and the upper-snake class name.
C10_Prefix ==
    /\ config_prefix =
          IF arg_prefix \notin {None, PyStr(s_empty)} THEN arg_prefix.v
          ELSE IF WELOVEBOT_CONFIG_PREFIX_ENVVAR \in DOMAIN environ
               THEN environ[WELOVEBOT_CONFIG_PREFIX_ENVVAR]
               ELSE WELOVEBOT_CONFIG_PREFIX_DEFAULT
    /\ prefix["bot_config"] = config_prefix
    /\ prefix["cog_config"] =
          UpperPrefix(config_prefix) \o Sep \o UpperSnakeName(ext)

\* no argument, the bootstrap variable set to Env, an ImagesHook cog
C10_Witness ==
    /\ arg_prefix = None
    /\ WELOVEBOT_CONFIG_PREFIX_ENVVAR \in DOMAIN environ
    /\ environ[WELOVEBOT_CONFIG_PREFIX_ENVVAR] = s_Env
    /\ config_prefix = s_Env
    /\ ext = "ImagesHook"
    /\ prefix["cog_config"] = <<"E","N","V","_","_","I","M","A","G","E","S","_","H","O","O","K">>

----------------------------------------------------------------------------
(* Handlers: BaseCog.task, BaseCog.on_ready, BaseCog.perodic_task *)

\* the result of a filter on the arguments of the event; "absent" is filter=None
FilterResults == {"absent", "True", "False", "None"}

\* a declaration: a decorator with its arguments above an extension's method
TaskDecl(e, l, func, f, m) ==
    [deco |-> "task", ext |-> e, listener |-> l, func |-> func,
     filter |-> f, filter_method |-> m, seconds |-> PyInt(0), minutes |-> PyInt(0)]

PerodicDecl(e, l, s, m) ==
    [deco |-> "perodic_task", ext |-> e, listener |-> l, func |-> "body",
     filter |-> "absent", filter_method |-> "absent", seconds |-> s, minutes |-> m]

\* timedelta(minutes=m, seconds=s).total_seconds()
timedelta_total_seconds(m, s) ==
    IF m.t # "int" \/ s.t # "int" THEN Raise("TypeError")
    ELSE Ok(m.v * 60 + s.v)

\* BaseCog.task(...)(func): the handler bound to the listener
BaseCog_task(d) ==
    Ok([deco |-> d.deco, ext |-> d.ext, listener |-> d.listener, func |-> d.func,
        filter |-> d.filter, filter_method |-> d.filter_method, interval |-> 0])

\* BaseCog.perodic_task(...)(func): the interval is computed here, once
BaseCog_perodic_task(d) ==
    Eval(LAMBDA i :
            IF i.kind # "ok" THEN i
            ELSE Ok([deco |-> d.deco, ext |-> d.ext, listener |-> d.listener,
                     func |-> d.func, filter |-> d.filter,
                     filter_method |-> d.filter_method, interval |-> i.val]),
         timedelta_total_seconds(d.minutes, d.seconds))

Bind(d) == IF d.deco = "task" THEN BaseCog_task(d) ELSE BaseCog_perodic_task(d)

\* the class bodies run their decorators in order; the first exception ends
\* the import, and no listener of the module is registered
RECURSIVE BindAll(_, _)
BindAll(decls, hs) ==
    IF decls = <<>> THEN [error |-> "none", handlers |-> hs]
    ELSE Eval(LAMBDA r :
                 IF r.kind # "ok" THEN [error |-> r.kind, handlers |-> <<>>]
                 ELSE BindAll(Tail(decls), Append(hs, r.val)),
              Bind(decls[1]))

----------------------------------------------------------------------------
(* The asyncio loop: tasks run one at a time, from the head of the ready
   queue to their next await *)

\* iterations of a periodic loop that the model follows
MaxIter == 2

\* dispatches of one event that the model follows
MaxFires == 1

\* a task: its coroutine (role, handler h, firing), the task that awaits it,
\* where it stands (pc), and what it did: the iterations logged, the sleeps
\* completed, the outcome of the latest run of the body, whether the
\* exception of that run was logged, and the outcome of the coroutine
NewTask(role, h, fire, parent) ==
    [role |-> role, h |-> h, fire |-> fire, parent |-> parent, pc |-> "new",
     iter |-> 0, sleeps |-> 0, body |-> "none", logged |-> FALSE, out |-> "none"]

\* the loop state that a running task works on, the task taken off the queue
Running == [tasks |-> tasks, ready |-> Tail(ready), lock |-> lock, site |-> site]

\* loop.create_task(coro): the new task is scheduled behind the ready ones
create_task(st, role, h, fire, parent) ==
    [st EXCEPT !.tasks = Append(@, NewTask(role, h, fire, parent)),
               !.ready = Append(@, Len(st.tasks) + 1)]

\* the coroutine of task id ends with `out`; the task that awaits it is woken
Finish(st, id, out) ==
    LET p == st.tasks[id].parent
        done == [st EXCEPT !.tasks[id].pc = "done", !.tasks[id].out = out]
    IN  IF p = 0 THEN done
        ELSE [done EXCEPT !.tasks[p].pc = "woken", !.ready = Append(@, p)]

\* the outcomes of a call of user or library code that the model tells apart:
\* it returns, it raises an Exception, it raises a BaseException that is no
\* Exception (asyncio.CancelledError, SystemExit), or it awaits the outside
BodyOutcomes == {"return", "Exception", "BaseException", "await"}

Fired(e) == IF e \in DOMAIN fires THEN fires[e] ELSE 0

\* the dispatch of event e schedules one task per listener, in the order of
\* registration
RECURSIVE Schedule(_, _, _, _)
Schedule(h, e, f, st) ==
    IF h > Len(handlers) THEN st
    ELSE Schedule(h + 1, e, f,
                  IF handlers[h].listener = e
                  THEN create_task(st, "wrapper", h, f, 0)
                  ELSE st)

\* filter(...) is False, or filter_method(self, ...) is False, for any result
\* that is falsy
wrapper_skips_falsy(h) ==
    \/ h.filter \in {"False", "None"}
    \/ h.filter_method \in {"False", "None"}

\* `filter and filter(*args) is False`, then the same with filter_method
wrapper_skips(h) ==
    \/ h.filter # "absent" /\ h.filter = "False"
    \/ h.filter_method # "absent" /\ h.filter_method = "False"

\* the wrapper of BaseCog.task: skip, or create the task of the body and
\* await it; what the body raises is raised by the await
task_wrapper(st, id) ==
    LET t == st.tasks[id]
        h == handlers[t.h]
        child == CHOOSE c \in DOMAIN st.tasks : st.tasks[c].parent = id
    IN  CASE t.pc = "new" /\ wrapper_skips(h) -> Finish(st, id, "skipped")
          [] t.pc = "new" /\ ~wrapper_skips(h) ->
                create_task([st EXCEPT !.tasks[id].pc = "await_task"],
                            h.func, t.h, t.fire, id)
          [] t.pc = "woken" -> Finish(st, id, st.tasks[child].out)

\* a wrapper that runs the loop in its own task: no task is created
perodic_task_wrapper_inline(st, id) == Finish(st, id, "return")

\* the wrapper of BaseCog.perodic_task: create the task of the loop, return
perodic_task_wrapper(st, id) ==
    LET t == st.tasks[id]
    IN  Finish(create_task(st, "loop", t.h, t.fire, 0), id, "return")

\* One run of the task of a periodic loop, from where it stands to its next
\* await. From "new" or "woke" (the sleep is over) an iteration starts: the
\* log of the iteration, then the body with outcome c; from "resumed" the
\* body goes on. An exception in `caught` is logged with self.exception;
\* then the sleep, which for an interval of 0 only yields to the loop. Any
\* other exception ends the task. log_first: the iteration is logged before
\* the body runs, not after.
perodic_task_run(st, id, c, caught, log_first) ==
    LET t == st.tasks[id]
        woke == [t EXCEPT !.sleeps = IF t.pc = "woke" THEN @ + 1 ELSE @]
        started == IF t.pc = "resumed" \/ ~log_first THEN woke
                   ELSE [woke EXCEPT !.iter = @ + 1]
        ended == [started EXCEPT
                    !.body = c,
                    !.logged = (c \in caught),
                    !.iter = IF ~log_first /\ c # "await" THEN @ + 1 ELSE @]
        again == handlers[t.h].interval = 0 /\ ended.iter < MaxIter
    IN  CASE c = "await" ->
                [st EXCEPT !.tasks[id] = [ended EXCEPT !.pc = "awaiting"]]
          [] c \in {"Exception", "BaseException"} \ caught ->
                Finish([st EXCEPT !.tasks[id] = ended], id, c)
          [] OTHER ->
                [st EXCEPT !.tasks[id] = [ended EXCEPT !.pc = IF again THEN "woke"
                                                              ELSE "sleeping"],
                           !.ready = IF again THEN Append(@, id) ELSE @]

\* the loop without its try/except
perodic_task_uncaught(st, id, c) == perodic_task_run(st, id, c, {}, TRUE)

\* the loop with the log of the iteration after the body
perodic_task_log_late(st, id, c) == perodic_task_run(st, id, c, {"Exception"}, FALSE)

\* the loop with its sleep inside the try: after an exception no sleep
perodic_task_sleep_in_try(st, id, c) ==
    Eval(LAMBDA r :
            IF c # "Exception" \/ r.tasks[id].pc # "sleeping" THEN r
            ELSE [r EXCEPT !.tasks[id].pc = "woke", !.ready = Append(@, id)],
         perodic_task_run(st, id, c, {"Exception"}, TRUE))

\* _perodic_task: while True: try: log, await func(self);
\* except Exception as e: self.exception(e); then await asyncio.sleep(interval)
perodic_task_loop(st, id, c) == perodic_task_run(st, id, c, {"Exception"}, TRUE)

\* the body of a handler bound with BaseCog.task: user code
body(st, id, c) ==
    IF c = "await" THEN [st EXCEPT !.tasks[id].pc = "awaiting", !.tasks[id].body = c]
    ELSE Finish([st EXCEPT !.tasks[id].body = c], id, c)

\* Semaphore.release(): the value goes up and the first waiter is woken
release(st) ==
    LET up == [st EXCEPT !.lock.value = @ + 1]
    IN  IF st.lock.waiters = <<>> THEN up
        ELSE LET w == Head(st.lock.waiters)
             IN  [up EXCEPT !.lock.waiters = Tail(@),
                            !.tasks[w].pc = "lock_woken",
                            !.ready = Append(@, w)]

\* WebCog.start without `async with WebCog._lock`
WebCog_start_unlocked(st, id, c) ==
    LET t == st.tasks[id]
        HOST == Target_getitem(Cog_config, Key(s_HOST)).out
        PORT == Target_getitem(Cog_config, Key(s_PORT)).out
    IN  CASE t.pc = "new" ->
                IF st.site.set THEN Finish(st, id, "return")
                ELSE IF HOST.kind # "ok" \/ PORT.kind # "ok"
                THEN Finish(st, id, "Exception")
                ELSE [st EXCEPT !.tasks[id].pc = "await_setup"]
          [] t.pc = "setup_done" ->
                IF c = "Exception" THEN Finish(st, id, c)
                ELSE [st EXCEPT !.site.set = TRUE, !.site.created = @ + 1,
                                !.site.binds = @ + 1,
                                !.tasks[id].pc = "await_bind"]
          [] t.pc = "bind_done" -> Finish(st, id, c)

\* WebCog.start with acquire() and release() in place of `async with`: an
\* exception leaves the method with the lock held
WebCog_start_held(st, id, c) ==
    LET t == st.tasks[id]
        HOST == Target_getitem(Cog_config, Key(s_HOST)).out
        PORT == Target_getitem(Cog_config, Key(s_PORT)).out
    IN  CASE t.pc \in {"new", "lock_woken"} ->
                IF st.lock.value <= 0
                THEN [st EXCEPT !.lock.waiters = Append(@, id),
                                !.tasks[id].pc = "wait_lock"]
                ELSE LET in == [st EXCEPT !.lock.value = @ - 1]
                     IN  IF in.site.set THEN Finish(release(in), id, "return")
                         ELSE IF HOST.kind # "ok" \/ PORT.kind # "ok"
                         THEN Finish(in, id, "Exception")
                         ELSE [in EXCEPT !.tasks[id].pc = "await_setup"]
          [] t.pc = "setup_done" ->
                IF c = "Exception" THEN Finish(st, id, c)
                ELSE [st EXCEPT !.site.set = TRUE, !.site.created = @ + 1,
                                !.site.binds = @ + 1,
                                !.tasks[id].pc = "await_bind"]
          [] t.pc = "bind_done" ->
                IF c = "Exception" THEN Finish(st, id, c)
                ELSE Finish(release(st), id, c)

\* WebCog.start: one run of its task, from where it stands to its next await;
\* c is the outcome of the library call that the task awaited
WebCog_start(st, id, c) ==
    LET t == st.tasks[id]
        HOST == Target_getitem(Cog_config, Key(s_HOST)).out
        PORT == Target_getitem(Cog_config, Key(s_PORT)).out
    IN  CASE t.pc \in {"new", "lock_woken"} ->
                \* async with WebCog._lock: Semaphore.acquire()
                IF st.lock.value <= 0
                THEN [st EXCEPT !.lock.waiters = Append(@, id),
                                !.tasks[id].pc = "wait_lock"]
                ELSE LET in == [st EXCEPT !.lock.value = @ - 1]
                     IN  IF in.site.set THEN Finish(release(in), id, "return")
                         ELSE IF HOST.kind # "ok" \/ PORT.kind # "ok"
                         THEN Finish(release(in), id, "Exception")
                         \* await runner.setup()
                         ELSE [in EXCEPT !.tasks[id].pc = "await_setup"]
          [] t.pc = "setup_done" ->
                IF c = "Exception" THEN Finish(release(st), id, c)
                \* WebCog._site = web.TCPSite(...); await WebCog._site.start()
                ELSE [st EXCEPT !.site.set = TRUE, !.site.created = @ + 1,
                                !.site.binds = @ + 1,
                                !.tasks[id].pc = "await_bind"]
          [] t.pc = "bind_done" -> Finish(release(st), id, c)

Set(st) ==
    /\ tasks' = st.tasks
    /\ ready' = st.ready
    /\ lock' = st.lock
    /\ site' = st.site
    /\ UNCHANGED <<import_error, handlers, fires>>
    /\ UNCHANGED <<vars_config, vars_discover, vars_store>>

\* an event is dispatched: bot.dispatch(e); the model follows n dispatches
DispatchBounded(e, n) ==
    /\ \E h \in DOMAIN handlers : handlers[h].listener = e
    /\ Fired(e) < n
    /\ \E st \in {Schedule(1, e, Fired(e) + 1,
                           [tasks |-> tasks, ready |-> ready,
                            lock |-> lock, site |-> site])} :
            /\ tasks' = st.tasks
            /\ ready' = st.ready
    /\ fires' = Put(fires, e, Fired(e) + 1)
    /\ UNCHANGED <<import_error, handlers, lock, site>>
    /\ UNCHANGED <<vars_config, vars_discover, vars_store>>

Dispatch(e) == DispatchBounded(e, MaxFires)

\* the loop runs the wrapper at the head of the ready queue
RunWrapper ==
    /\ ready # <<>>
    /\ tasks[Head(ready)].role = "wrapper"
    /\ \E st \in {IF handlers[tasks[Head(ready)].h].deco = "task"
                  THEN task_wrapper(Running, Head(ready))
                  ELSE perodic_task_wrapper(Running, Head(ready))} : Set(st)

\* the loop runs the task of a periodic loop
RunLoop ==
    /\ ready # <<>>
    /\ tasks[Head(ready)].role = "loop"
    /\ \E c \in BodyOutcomes :
        /\ tasks[Head(ready)].pc = "resumed" => c # "await"
        /\ \E st \in {perodic_task_loop(Running, Head(ready), c)} : Set(st)

\* the loop runs the task of a handler's body
RunBody ==
    /\ ready # <<>>
    /\ tasks[Head(ready)].role = "body"
    /\ \E c \in BodyOutcomes :
        /\ tasks[Head(ready)].pc = "resumed" => c # "await"
        /\ \E st \in {body(Running, Head(ready), c)} : Set(st)

\* the loop runs the task of WebCog.start
RunStart ==
    /\ ready # <<>>
    /\ tasks[Head(ready)].role = "start"
    /\ \E c \in {"return", "Exception"} :
        /\ tasks[Head(ready)].pc \in {"new", "lock_woken"} => c = "return"
        /\ \E st \in {WebCog_start(Running, Head(ready), c)} : Set(st)

\* what a task awaits outside the loop completes: its wake-up is scheduled
Resume(id) ==
    /\ tasks[id].pc \in {"awaiting", "await_setup", "await_bind"}
    /\ \E st \in {[tasks |-> [tasks EXCEPT ![id].pc =
                                 CASE @ = "awaiting"    -> "resumed"
                                   [] @ = "await_setup" -> "setup_done"
                                   [] @ = "await_bind"  -> "bind_done"],
                   ready |-> Append(ready, id),
                   lock |-> lock, site |-> site]} : Set(st)

\* the timer of asyncio.sleep(interval) is due
TimerFire(id) ==
    /\ tasks[id].pc = "sleeping"
    /\ tasks[id].iter < MaxIter
    /\ \E st \in {[tasks |-> [tasks EXCEPT ![id].pc = "woke"],
                   ready |-> Append(ready, id),
                   lock |-> lock, site |-> site]} : Set(st)

----------------------------------------------------------------------------
(* SpecLoop: the modules of the extensions are imported, their handlers are
   bound, then events are dispatched and the loop runs *)

\* WebCog subclasses loaded together
MaxWebCogs == 2

Events == {"on_ready", "on_message", "on_tinybeans_login"}

s_INTERVAL_15 == <<"I","N","T","E","R","V","A","L","=","1","5">>

ExtTags == <<"A", "B", "C", "D">>

\* two extensions with a periodic task each on on_ready
\* (dissapearing_messages.py: perodic_task(60)); tinybeans.py and
\* tinybeans2.py: a minutes component, an int or the string 'INTERVAL=15'
PeriodicDecls ==
    {<<PerodicDecl("A", "on_ready", s, PyInt(0)),
       PerodicDecl("B", "on_ready", PyInt(60), PyInt(0))>> :
        s \in {PyInt(0), PyInt(60)}}
    \cup {<<PerodicDecl("A", "on_tinybeans_login", PyInt(0), m)>> :
            m \in {PyInt(15), PyStr(s_INTERVAL_15)}}

\* two handlers of on_message, the first with any filters
\* (threads_required.py: filter_method=filter_channel)
TaskDecls ==
    {<<TaskDecl("A", "on_message", "body", f, m),
       TaskDecl("B", "on_message", "body", g, "absent")>> :
        f \in FilterResults, m \in FilterResults, g \in {"absent", "False"}}

\* n subclasses of WebCog: each inherits start, bound with Cog.on_ready
WebDecls ==
    {[i \in 1..n |-> TaskDecl(ExtTags[i], "on_ready", "start", "absent", "absent")] :
        n \in 1..MaxWebCogs}

Imported(decls) ==
    /\ \E b \in {BindAll(decls, <<>>)} :
        /\ import_error = b.error
        /\ handlers = b.handlers
    /\ fires = <<>>
    /\ ready = <<>>
    /\ tasks = <<>>
    /\ lock = [value |-> Semaphore_value, waiters |-> <<>>]
    /\ site = [set |-> FALSE, created |-> 0, binds |-> 0]

InitLoop ==
    /\ \/ \E decls \in PeriodicDecls \cup TaskDecls :
            /\ ConfigConstructed(None, EnvOf(<<>>), "Cog")
            /\ Imported(decls)
       \/ \E decls \in WebDecls, cls \in {"WebCog", "ImagesHook"} :
            /\ ConfigConstructed(None, EnvOf(<<>>), cls)
            /\ Imported(decls)
    /\ DiscoverIdle
    /\ StoreIdle

NextLoop ==
    \/ \E e \in Events : Dispatch(e)
    \/ RunWrapper
    \/ RunLoop
    \/ RunBody
    \/ RunStart
    \/ \E id \in DOMAIN tasks : Resume(id)
    \/ \E id \in DOMAIN tasks : TimerFire(id)

SpecLoop == InitLoop /\ [][NextLoop]_vars

----------------------------------------------------------------------------
(* SpecTrigger: one periodic task whose trigger event fires repeatedly
   (on_ready at every reconnect; on_tinybeans_login at every login) *)

\* firings of the trigger of one periodic task that the model follows
MaxTriggers == 2

\* dissapearing_messages.py: perodic_task(60) on on_ready; tinybeans2.py:
\* a periodic task on on_tinybeans_login, with its minutes as an int
TriggerDecls ==
    {<<PerodicDecl("A", "on_ready", PyInt(60), PyInt(0))>>,
     <<PerodicDecl("A", "on_tinybeans_login", PyInt(0), PyInt(15))>>}

Trigger(e) == DispatchBounded(e, MaxTriggers)

InitTrigger ==
    /\ \E decls \in TriggerDecls :
            /\ ConfigConstructed(None, EnvOf(<<>>), "Cog")
            /\ Imported(decls)
    /\ DiscoverIdle
    /\ StoreIdle

NextTrigger ==
    \/ \E e \in Events : Trigger(e)
    \/ RunWrapper
    \/ RunLoop
    \/ \E id \in DOMAIN tasks : Resume(id)
    \/ \E id \in DOMAIN tasks : TimerFire(id)

SpecTrigger == InitTrigger /\ [][NextTrigger]_vars

----------------------------------------------------------------------------
(* Discovery: Bot.discover_extensions, Bot.discover_extension *)

\* symbols of one scan that the model follows
MaxSymbols == 2

\* what a module-level name can be bound to
LiteralKinds == {"int", "float", "str", "bool", "tuple", "list", "dict", "set"}

Kinds == LiteralKinds
         \cup {"None", "module", "logger", "cog_instance", "cog_class",
               "command", "function", "object"}

\* A symbol: whether its name starts with '_'; the kind of the object;
\* `origin`: "none" when the object has no __module__ attribute (a module, a
\* literal, None), else whether its __module__ is the scanned module ("same")
\* or not ("foreign"), which for an instance is the module of its class;
\* `cls`: the name under which a cog or command is registered; `enabled`:
\* getattr(instance, 'enabled', True)
Symbol(p, k, o, c, e) ==
    [private |-> p, kind |-> k, origin |-> o, cls |-> c, enabled |-> e,
     url_root |-> NotWebCog]

\* a public subclass of WebCog defined in the scanned module, with the
\* class attribute url_root
WebCogClass(c, e, u) ==
    [Symbol(FALSE, "cog_class", "same", c, e) EXCEPT !.url_root = u]

\* url_root of WebCog itself, of a handler, and two that need normalising
UrlRoots == {None, PyStr(<<"h">>), PyStr(<<"/", "h", "/">>),
             PyStr(<<"a", "/", "b">>)}

Symbols ==
    {Symbol(p, k, "none", "", TRUE) :
        p \in BOOLEAN, k \in LiteralKinds \cup {"None", "module"}}
    \cup {Symbol(FALSE, "logger", "foreign", "", TRUE)}
    \cup {Symbol(p, k, o, "", TRUE) :
            p \in BOOLEAN, k \in {"function", "object"}, o \in {"same", "foreign"}}
    \cup {Symbol(FALSE, k, o, c, e) :
            k \in {"cog_instance", "cog_class"}, o \in {"same", "foreign"},
            c \in {"Ping", "Pong"}, e \in BOOLEAN}
    \cup {Symbol(FALSE, "command", o, "ping", TRUE) : o \in {"same", "foreign"}}
    \cup {WebCogClass(c, e, u) :
            c \in {"Ping", "Pong"}, e \in BOOLEAN, u \in UrlRoots}

\* the if/elif chain of discover_extension: the branch that a symbol takes
classify(s) ==
    CASE \/ s.private
         \/ s.kind \in {"module", "logger"}
         \/ (s.origin # "none" /\ s.origin # "same")       -> "ignore"
      [] OTHER ->
         CASE s.kind = "cog_instance"                      -> "instance"
           [] s.kind = "cog_class"                         -> "class"
           [] s.kind = "command"                           -> "command"
           \* isinstance(loadable, (int, str, bool, tuple, list))
           [] s.kind \in {"int", "str", "bool", "tuple", "list"} -> "literal"
           [] OTHER                                        -> "fallback"

\* commands.Bot.add_cog: a second cog of a registered name is refused
add_cog(registry, name) ==
    IF \E i \in DOMAIN registry : registry[i] = name
    THEN [out |-> "DuplicateExtension", cogs |-> registry]
    ELSE [out |-> "ok", cogs |-> Append(registry, name)]

\* str.strip('/'): leading and trailing slashes removed
strip_slash(s) ==
    LET keep == {i \in 1..Len(s) : s[i] # "/"}
    IN  IF keep = {} THEN <<>>
        ELSE SubSeq(s, CHOOSE i \in keep : \A j \in keep : i <= j,
                       CHOOSE i \in keep : \A j \in keep : i >= j)

\* WebCog.add_subapp: the routes of the instance are mounted on the shared
\* application under '/' + url_root
add_subapp(ms, s, root) ==
    Append(ms, [cls |-> s.cls, url_root |-> root, enabled |-> s.enabled])

\* WebCog.__post_init__ of a new instance of class s, with the mounts made
\* so far
WebCog_post_init(s, ms) ==
    IF s.url_root = None THEN [out |-> "AttributeError", mounts |-> ms]
    ELSE LET root == strip_slash(s.url_root.v)
         IN  IF \E i \in DOMAIN root : root[i] = "/"
             THEN [out |-> "ValueError", mounts |-> ms]
             ELSE [out |-> "ok", mounts |-> add_subapp(ms, s, root)]

\* loadable(self): the instance of a cog class is constructed; c = "raise"
\* when the constructor of the extension raises on its own
construct(s, c, ms) ==
    CASE c = "raise"              -> [out |-> "Exception", mounts |-> ms]
      [] s.url_root = NotWebCog   -> [out |-> "ok", mounts |-> ms]
      [] OTHER                    -> WebCog_post_init(s, ms)

\* the branches of discover_extension; the try/except around add_cog is what
\* `guarded` adds
discover_extension_run(s, c, registry, ms, guarded) ==
    LET v == classify(s)
        made == IF v = "class" THEN construct(s, c, ms)
                ELSE [out |-> "ok", mounts |-> ms]
        nothing == [variant |-> v, call |-> "none", out |-> "ok",
                    cogs |-> registry, mounts |-> made.mounts]
    IN  CASE made.out # "ok" -> [nothing EXCEPT !.out = made.out]
          [] v \in {"instance", "class"} /\ s.enabled ->
                [nothing EXCEPT !.call = "add_cog",
                                !.out = IF guarded THEN "ok"
                                        ELSE add_cog(registry, s.cls).out,
                                !.cogs = add_cog(registry, s.cls).cogs]
          [] v = "command" -> [nothing EXCEPT !.call = "add_command"]
          [] v = "fallback" ->
                [nothing EXCEPT !.call = "load_extension",
                                !.out = IF c = "raise" THEN "ExtensionError" ELSE "ok"]
          [] OTHER -> nothing

\* discover_extension with add_cog in a try/except that logs and goes on
discover_extension_guarded(s, c, registry, ms) ==
    discover_extension_run(s, c, registry, ms, TRUE)

\* Bot.discover_extension(name, mod) for symbol s, with the cogs registered
\* and the routes mounted so far: the branch taken, the call made, the new
\* registry, the new mounts and the outcome.
\* c is the outcome of the call into code outside the bot: loadable(self) for
\* a cog class, load_extension(name) for the fallback.
discover_extension(s, c, registry, ms) ==
    discover_extension_run(s, c, registry, ms, FALSE)

\* discover_extensions: `for name in dir(mod): self.discover_extension(name,
\* mod)`, one symbol per step; an exception ends the scan
DiscoverExtension ==
    /\ discovery = "running"
    /\ \E c \in {"ok", "raise"} :
        \E r \in {discover_extension(symbols[next_symbol], c, cogs, mounts)} :
            /\ cogs' = r.cogs
            /\ mounts' = r.mounts
            /\ calls' = Append(calls, [variant |-> r.variant, call |-> r.call,
                                       out |-> r.out])
            /\ discovery' = IF r.out # "ok" THEN r.out
                            ELSE IF next_symbol = Len(symbols) THEN "done"
                            ELSE "running"
    /\ next_symbol' = next_symbol + 1
    /\ UNCHANGED <<symbols, startup, scan>>
    /\ UNCHANGED <<vars_config, vars_loop, vars_store>>

\* Bot.run after discover_extensions returned: dispatch('run'), then the
\* token is looked up and the client runs; a missing DISCORD_TOKEN raises,
\* which main() catches and logs before it returns. token: whether the
\* configuration defines DISCORD_TOKEN.
Bot_run ==
    /\ discovery = "done"
    /\ ~startup.client /\ ~startup.exited
    /\ \E token \in BOOLEAN :
        startup' = [failed |-> ~token,
                    dispatched |-> Append(startup.dispatched, "run"),
                    client |-> token,
                    exited |-> ~token,
                    status |-> main_exit]
    /\ UNCHANGED <<symbols, next_symbol, cogs, calls, discovery, mounts, scan>>
    /\ UNCHANGED <<vars_config, vars_loop, vars_store>>

\* main(): an exception of discover_extensions leaves Bot.run, is caught by
\* `except Exception`, logged, and main returns
main_except ==
    /\ discovery \notin {"new", "running", "done"}
    /\ ~startup.exited
    /\ startup' = [startup EXCEPT !.failed = TRUE, !.exited = TRUE,
                                  !.status = main_exit]
    /\ UNCHANGED <<symbols, next_symbol, cogs, calls, discovery, mounts, scan>>
    /\ UNCHANGED <<vars_config, vars_loop, vars_store>>

InitDiscover ==
    /\ ConfigConstructed(None, EnvOf(<<>>), "Cog")
    /\ LoopIdle
    /\ symbols \in UNION {[1..n -> Symbols] : n \in 1..MaxSymbols}
    /\ next_symbol = 1
    /\ cogs = <<>>
    /\ calls = <<>>
    /\ discovery = "running"
    /\ mounts = <<>>
    /\ startup = StartupIdle
    /\ scan = ScanIdle
    /\ StoreIdle

NextDiscover == DiscoverExtension \/ Bot_run \/ main_except

SpecDiscover == InitDiscover /\ [][NextDiscover]_vars

----------------------------------------------------------------------------
(* Properties of the handlers and the loop (SpecLoop) *)

LoopTasks == {id \in DOMAIN tasks : tasks[id].role = "loop"}

\* task id runs in this step: only a run changes a task that is scheduled
Ran(id) == tasks[id].pc \in {"new", "woke", "resumed", "woken", "lock_woken",
                             "setup_done", "bind_done"}
           /\ tasks'[id] # tasks[id]

WrapperTasks == {id \in DOMAIN tasks : tasks[id].role = "wrapper"}

\* the task that wrapper w created, or 0
ChildOf(w) ==
    IF \E c \in DOMAIN tasks : tasks[c].parent = w
    THEN CHOOSE c \in DOMAIN tasks : tasks[c].parent = w
    ELSE 0

\* C12: when the body of an event-triggered handler raises, the wrapper
\* catches and logs the exception: the wrapper itself returns, and nothing
\* is raised out of it to the dispatcher
C12_WrapperCatches ==
    \A w \in WrapperTasks :
        (ChildOf(w) # 0 /\ tasks[w].pc = "done"
            /\ tasks[ChildOf(w)].out \in {"Exception", "BaseException"}) =>
                /\ tasks[w].out = "return"
                /\ tasks[w].logged

\* wrappers of handlers bound with BaseCog.task that have run
TaskWrappersRun ==
    {w \in WrapperTasks : handlers[tasks[w].h].deco = "task" /\ tasks[w].pc # "new"}

\* C13: the body of a handler is skipped exactly when its filter, called with
\* the arguments of the event, or its filter_method, called with the
\* extension and the arguments, gives False; in every other case (no filter,
\* True, or a result that is neither) a task is created for the body. Every
\* handler bound to the event gets its wrapper, whatever the others skip.
C13_SkipIffFalse ==
    \A w \in TaskWrappersRun :
        LET h == handlers[tasks[w].h]
            false == h.filter = "False" \/ h.filter_method = "False"
        IN  /\ false <=> (tasks[w].out = "skipped" /\ ChildOf(w) = 0)
            /\ ~false <=> (ChildOf(w) # 0 /\ tasks[ChildOf(w)].role = h.func)
            /\ \A g \in DOMAIN handlers :
                  handlers[g].listener = h.listener =>
                      \E v \in WrapperTasks :
                          tasks[v].h = g /\ tasks[v].fire = tasks[w].fire

\* one handler of the event skipped on a filter that gave False, and the body
\* of another handler of the same event ran to its end
C13_Witness ==
    \E w, v \in TaskWrappersRun :
        /\ tasks[w].fire = tasks[v].fire
        /\ handlers[tasks[w].h].listener = handlers[tasks[v].h].listener
        /\ handlers[tasks[w].h].filter = "False"
        /\ tasks[w].out = "skipped"
        /\ handlers[tasks[v].h].filter_method = "None"
        /\ ChildOf(v) # 0
        /\ tasks[ChildOf(v)].out = "return"

\* the periodic handlers bound to on_ready, and their loops of firing f
ReadyPeriodics ==
    {h \in DOMAIN handlers :
        handlers[h].deco = "perodic_task" /\ handlers[h].listener = "on_ready"}

ReadyLoops(f) == {id \in LoopTasks : tasks[id].h \in ReadyPeriodics /\ tasks[id].fire = f}

\* C14: with a periodic task of each of two extensions bound to on_ready, one
\* firing of on_ready starts one loop per handler, and no sleep of either
\* loop is over before both loops have logged their first iteration
C14_BothLogFirst ==
    \A f \in 1..Fired("on_ready") :
        /\ \A id, jd \in ReadyLoops(f) : tasks[id].h = tasks[jd].h => id = jd
        /\ (\A w \in WrapperTasks : tasks[w].fire = f => tasks[w].pc = "done") =>
                \A h \in ReadyPeriodics : \E id \in ReadyLoops(f) : tasks[id].h = h
        /\ (\E id \in ReadyLoops(f) : tasks[id].sleeps >= 1) =>
                \A h \in ReadyPeriodics :
                    \E id \in ReadyLoops(f) : tasks[id].h = h /\ tasks[id].iter >= 1

\* the loop of one extension is in its second iteration while the body of
\* the other, which logged its first iteration, is still awaiting
C14_Witness ==
    \E id, jd \in ReadyLoops(1) :
        /\ handlers[tasks[id].h].ext # handlers[tasks[jd].h].ext
        /\ tasks[id].pc = "awaiting"
        /\ tasks[id].iter = 1
        /\ tasks[jd].sleeps = 1
        /\ tasks[jd].iter = 2

\* C15: the interval of a periodic task is computed when its trigger event
\* fires, not at bind time: a component given as 'ENVVAR=default' (as
\* minutes='INTERVAL=15') passes the bind untouched, so that the import of
\* the extension's module raises nothing and its handler is bound
C15_IntervalAtTrigger ==
    /\ import_error = "none"
    /\ handlers # <<>>

StartTasks == {id \in DOMAIN tasks : tasks[id].role = "start"}

\* the starts that passed the test of WebCog._site and have not yet left
\* `async with`: from the read of HOST and PORT to the completion of the bind
InStart ==
    {id \in StartTasks :
        tasks[id].pc \in {"await_setup", "setup_done", "await_bind", "bind_done"}}

\* C16: however the start handlers of the HTTP-capable extensions interleave,
\* the shared site is created at most once and its socket is bound at most
\* once; at most one start is between its test of the site and the
\* completion of the bind, and it holds the lock
C16_SiteOnce ==
    /\ site.created <= 1
    /\ site.binds <= 1
    /\ Cardinality(InStart) <= 1
    /\ InStart # {} => lock.value = 0

\* one start awaits the bind of the site it created while the start of
\* another extension waits for the lock
C16_Witness ==
    \E id, jd \in StartTasks :
        /\ tasks[id].pc = "await_bind"
        /\ tasks[jd].pc = "wait_lock"
        /\ site.created = 1
        /\ site.binds = 1

----------------------------------------------------------------------------
(* Properties of discovery (SpecDiscover) *)

\* the symbols that discover_extension was called for
Discovered == 1..Len(calls)

\* the variant of a symbol as section 4.2 of the specification gives it
VariantOf(s) ==
    IF s.private \/ s.kind \in {"module", "logger"} \/ s.origin = "foreign"
    THEN "ignore"
    ELSE CASE s.kind = "cog_instance"  -> "instance"
           [] s.kind = "cog_class"     -> "class"
           [] s.kind = "command"       -> "command"
           [] s.kind \in LiteralKinds  -> "literal"
           [] OTHER                    -> "fallback"

\* C17: every symbol is classified into exactly one variant, the first that
\* matches in the order ignore, extension instance, extension class,
\* standalone command, primitive literal, fallback; add_cog and add_command
\* are called only for an instance, a class and a command
C17_FirstMatch ==
    \A i \in Discovered :
        /\ calls[i].variant = VariantOf(symbols[i])
        /\ calls[i].call \in {"add_cog", "add_command"} =>
                calls[i].variant \in {"instance", "class", "command"}

\* C18: a primitive literal (a number, float or not, a string, a boolean, a
\* bare collection, dict and set included) is skipped without any call: it
\* never reaches load_extension
C18_LiteralsSkipped ==
    \A i \in Discovered :
        symbols[i].kind \in LiteralKinds => calls[i].call = "none"

\* C19: a symbol that no variant recognises (a function or an object defined
\* in the scanned module) is handed to load_extension, nothing is raised, and
\* discovery goes on with the next symbol
C19_FallbackNeverRaises ==
    \A i \in Discovered :
        (symbols[i].kind \in {"function", "object"}
            /\ VariantOf(symbols[i]) = "fallback") =>
                /\ calls[i].call = "load_extension"
                /\ calls[i].out = "ok"
                /\ i = Len(calls) => discovery \in {"running", "done"}

Registered(name) == \E i \in DOMAIN cogs : cogs[i] = name

\* C20: no two cogs of the registry have the same name; the registration of
\* a cog whose name is registered raises the duplicate error, which ends
\* discovery, and leaves the registry as it was
C20_OnePerName ==
    /\ [](\A i, j \in DOMAIN cogs : cogs[i] = cogs[j] => i = j)
    /\ [][calls' # calls => \A s \in {symbols[next_symbol]} :
            (calls'[Len(calls')].call = "add_cog" /\ Registered(s.cls)) =>
                /\ discovery' = "DuplicateExtension"
                /\ calls'[Len(calls')].out = "DuplicateExtension"
                /\ cogs' = cogs]_vars

\* a second cog named Ping was discovered: discovery ended with the
\* duplicate error and the registry holds the first Ping only
C20_Witness ==
    /\ Len(calls) = 2
    /\ calls[1].call = "add_cog"
    /\ calls[2].call = "add_cog"
    /\ discovery = "DuplicateExtension"
    /\ cogs = <<"Ping">>

\* C21: a cog that discovery found disabled keeps the name of its class in
\* the registry: a later cog of that name, once constructed, is refused by
\* add_cog as a duplicate
C21_DisabledKeepsSlot ==
    \A i \in DOMAIN calls : \A j \in DOMAIN calls :
        ( /\ i < j
          /\ calls[i].variant \in {"instance", "class"}
          /\ calls[i].out = "ok"
          /\ ~symbols[i].enabled
          /\ calls[j].variant \in {"instance", "class"}
          /\ calls[j].out # "Exception"
          /\ symbols[j].enabled
          /\ symbols[j].cls = symbols[i].cls )
        => calls[j].out = "DuplicateExtension"

\* C22: the task handlers of a disabled extension never run (the cog is not
\* added to the bot, so no listener of it is registered) and its routes are
\* not served: no sub-application of a disabled extension is mounted on the
\* application that the shared site serves
C22_DisabledUnreachable ==
    /\ \A i \in Discovered :
        (calls[i].variant \in {"instance", "class"} /\ ~symbols[i].enabled)
            => calls[i].call = "none"
    /\ \A m \in DOMAIN mounts : mounts[m].enabled

\* C24: when startup fails, the client is not started, no event is
\* dispatched, and the process exits with a status other than 0
C24_FailedStartup ==
    startup.failed =>
        /\ ~startup.client
        /\ startup.dispatched = <<>>
        /\ startup.exited
        /\ startup.status # 0

\* C25: every constructed WebCog is mounted under its url_root, and no two
\* mounts have the same url_root
C25_UniqueUrlRoot ==
    /\ \A i \in Discovered :
        (calls[i].variant = "class" /\ symbols[i].url_root # NotWebCog
            /\ calls[i].out \notin {"Exception", "AttributeError", "ValueError"})
        => \E m \in DOMAIN mounts :
                /\ mounts[m].cls = symbols[i].cls
                /\ mounts[m].url_root = strip_slash(symbols[i].url_root.v)
    /\ \A m, n \in DOMAIN mounts :
        mounts[m].url_root = mounts[n].url_root => m = n

\* the extensions whose attribute `enabled` is False while the events fire
DisabledAtFiring == {"B"}

\* C23: the wrapper of a handler tests the enablement of its extension at
\* each firing: for a disabled extension no task is created for the body,
\* and the wrapper ends with a skip of its own kind, not the filter's
C23_EnablementAtFiring ==
    \A w \in WrapperTasks :
        (tasks[w].pc # "new" /\ handlers[tasks[w].h].ext \in DisabledAtFiring)
            => /\ ChildOf(w) = 0
               /\ tasks[w].out = "disabled"

----------------------------------------------------------------------------
(* The JSON store: JsonConfig *)

s_seen == <<"s","e","e","n">>

s_k == <<"k">>

s_a == <<"a">>

\* json.dump of a Python value: the document written. A tuple and a list
\* both give an array; a dict gives an object, key by key
RECURSIVE dumps(_)
dumps(x) ==
    CASE x.t = "dict"             -> [j |-> "object",
                                      v |-> [k \in DOMAIN x.v |-> dumps(x.v[k])]]
      [] x.t \in {"tuple", "list"} -> [j |-> "array",
                                      v |-> [i \in DOMAIN x.v |-> dumps(x.v[i])]]
      [] x.t = "str"              -> [j |-> "string", v |-> x.v]
      [] x.t \in {"int", "float"} -> [j |-> "number", v |-> x]
      [] OTHER                    -> [j |-> "null", v |-> <<>>]

\* json.load of a document: an array gives a list
RECURSIVE loads(_)
loads(y) ==
    CASE y.j = "object" -> Coll("dict", [k \in DOMAIN y.v |-> loads(y.v[k])])
      [] y.j = "array"  -> Coll("list", [i \in DOMAIN y.v |-> loads(y.v[i])])
      [] y.j = "string" -> PyStr(y.v)
      [] y.j = "number" -> y.v
      [] OTHER          -> None

\* the encoder of json has a case for the value: a set has none, and
\* json.dump raises TypeError when it gets to it
RECURSIVE encodable(_)
encodable(x) ==
    CASE x.t = "dict"              -> \A k \in DOMAIN x.v : encodable(x.v[k])
      [] x.t \in {"tuple", "list"} -> \A i \in DOMAIN x.v : encodable(x.v[i])
      [] OTHER                     -> x.t # "set"

dict(d) == Coll("dict", d)

\* dict.update(m)
dict_update(d, m) ==
    [n \in DOMAIN d \cup DOMAIN m |-> IF n \in DOMAIN m THEN m[n] ELSE d[n]]

\* the file holds the complete document of mapping d
FileOf(d) == [kind |-> "json", doc |-> dumps(dict(d)), opened |-> FALSE]

\* path.open('w') opened and emptied the file; what json.dump wrote before
\* it raised is the start of a document, not a document
Truncated == [kind |-> "partial", doc |-> None, opened |-> TRUE]

\* JsonConfig.json was not read yet
NotLoaded == [loaded |-> FALSE, d |-> <<>>]

\* the file and the cached mapping, as the methods of JsonConfig get them
Store == [file |-> file, json |-> json, out |-> "ok"]

\* JsonConfig.json, a cached_property: the first read creates a missing
\* file, loads the file, takes a text that is no JSON for {}, and refuses a
\* document that is no object; a value that was returned is cached
JsonConfig_json(st) ==
    IF st.json.loaded THEN [st EXCEPT !.out = "ok"]
    ELSE Eval(LAMBDA f :
            Eval(LAMBDA j :
                    IF j.t # "dict"
                    THEN [file |-> f, json |-> st.json, out |-> "TypeError"]
                    ELSE [file |-> f, json |-> [loaded |-> TRUE, d |-> j.v],
                          out |-> "ok"],
                 IF f.kind = "json" THEN loads(f.doc) ELSE dict(<<>>)),
            IF st.file.kind = "absent"
            THEN [FileOf(<<>>) EXCEPT !.opened = TRUE]
            ELSE [st.file EXCEPT !.opened = TRUE])

\* JsonConfig.save: `with self.path.open('w') as f: json.dump(self.json, f)`
save(st) ==
    Eval(LAMBDA r :
            CASE r.out # "ok"               -> r
              [] encodable(dict(r.json.d))  ->
                    [r EXCEPT !.file = [FileOf(r.json.d) EXCEPT !.opened = TRUE],
                              !.out = "ok"]
              [] OTHER                      -> [r EXCEPT !.out = "TypeError"],
         JsonConfig_json([st EXCEPT !.file = Truncated]))

\* JsonConfig.__exit__ after a body of outcome exc: save, and the exception
\* of the body goes on unless save raises its own
JsonConfig_exit(st, exc) ==
    Eval(LAMBDA s : [s EXCEPT !.out = IF s.out # "ok" THEN s.out ELSE exc],
         save(st))

\* Config.__getitem__ with JsonConfig._getitem
JsonConfig_getitem(st, k) ==
    Eval(LAMBDA r : IF r.out = "ok" /\ k \notin DOMAIN r.json.d
                    THEN [r EXCEPT !.out = "KeyError"] ELSE r,
         JsonConfig_json(st))

\* Config.__setitem__ with JsonConfig._setitem
JsonConfig_setitem(st, k, x) ==
    Eval(LAMBDA r :
            IF r.out # "ok" THEN JsonConfig_exit(r, r.out)
            ELSE JsonConfig_exit([r EXCEPT !.json.d = Put(r.json.d, k, x)], "ok"),
         JsonConfig_json(st))

\* JsonConfig.update
JsonConfig_update(st, m) ==
    Eval(LAMBDA r :
            IF r.out # "ok" THEN JsonConfig_exit(r, r.out)
            ELSE JsonConfig_exit([r EXCEPT !.json.d = dict_update(r.json.d, m)],
                                 "ok"),
         JsonConfig_json(st))

\* JsonConfig.update_in
JsonConfig_update_in(st, k, m) ==
    Eval(LAMBDA r :
            CASE r.out # "ok"              -> JsonConfig_exit(r, r.out)
              [] k \notin DOMAIN r.json.d  -> JsonConfig_exit(r, "KeyError")
              [] r.json.d[k].t # "dict"    -> JsonConfig_exit(r, "AttributeError")
              [] OTHER ->
                    JsonConfig_exit(
                        [r EXCEPT !.json.d[k] = dict(dict_update(r.json.d[k].v, m))],
                        "ok"),
         JsonConfig_json(st))

\* setdefault that assigns without `with self`
JsonConfig_setdefault_unsaved(st, k, x) ==
    Eval(LAMBDA r : IF r.out # "ok" \/ k \in DOMAIN r.json.d THEN r
                    ELSE [r EXCEPT !.json.d = Put(r.json.d, k, x)],
         JsonConfig_json(st))

\* JsonConfig.setdefault
JsonConfig_setdefault(st, k, x) ==
    Eval(LAMBDA r :
            IF r.out # "ok" \/ k \in DOMAIN r.json.d THEN r
            ELSE JsonConfig_exit([r EXCEPT !.json.d = Put(r.json.d, k, x)], "ok"),
         JsonConfig_json(st))

\* JsonConfig(path): __post_init__ makes a Path of the path, nothing else
JsonConfig_post_init(f) == [file |-> f, json |-> NotLoaded, out |-> "ok"]

----------------------------------------------------------------------------
(* SpecJson: the calls of one JsonConfig *)

JsonKeys == {s_seen, s_k}

\* a string, a tuple, a set
Atoms == {PyStr(s_a), Coll("tuple", <<PyInt(1)>>), Coll("set", {PyInt(1)})}

JsonValues == Atoms \cup {dict(<<>>)}

\* the mappings of one entry
Entries(vals) == {Put(<<>>, k, x) : k \in JsonKeys, x \in vals}

\* no file, a file of an object, of an array, of a text that is no JSON
InitialFiles ==
    {[kind |-> "absent", doc |-> None, opened |-> FALSE],
     FileOf(<<>>), FileOf(Put(<<>>, s_seen, dict(<<>>))),
     FileOf(Put(<<>>, s_k, PyStr(s_a))),
     [kind |-> "json", doc |-> dumps(Coll("list", <<>>)), opened |-> FALSE],
     [kind |-> "garbage", doc |-> None, opened |-> FALSE]}

\* the key is not in the mapping when the call is made
Absent(k) ==
    LET r == JsonConfig_json(Store)
    IN  r.out = "ok" /\ k \notin DOMAIN r.json.d

\* a call of the JsonConfig was made: its outcome and what it left
JsonCall(op, k, r) ==
    /\ file' = r.file
    /\ json' = r.json
    /\ last' = [op |-> op, key |-> k, absent |-> Absent(k), out |-> r.out]
    /\ UNCHANGED <<environ, arg_prefix, config_prefix, ext, prefix, overrides,
                   redis, pc, seen_keys, messages>>
    /\ UNCHANGED <<handler, jobs, client>>
    /\ UNCHANGED <<vars_loop, vars_discover>>

GetItem ==
    \E k \in JsonKeys :
        \E r \in {JsonConfig_getitem(Store, k)} : JsonCall("getitem", k, r)

JsonSetItem ==
    \E k \in JsonKeys, x \in JsonValues :
        \E r \in {JsonConfig_setitem(Store, k, x)} : JsonCall("setitem", k, r)

Update ==
    \E m \in Entries(JsonValues) :
        \E r \in {JsonConfig_update(Store, m)} :
            JsonCall("update", CHOOSE k \in DOMAIN m : TRUE, r)

UpdateIn ==
    \E k \in JsonKeys, m \in Entries(Atoms) :
        \E r \in {JsonConfig_update_in(Store, k, m)} : JsonCall("update_in", k, r)

Setdefault ==
    \E k \in JsonKeys, x \in JsonValues :
        \E r \in {JsonConfig_setdefault(Store, k, x)} : JsonCall("setdefault", k, r)

InitJson ==
    /\ ConfigConstructed(None, EnvOf(<<>>), "Cog")
    /\ LoopIdle
    /\ DiscoverIdle
    /\ \E f \in InitialFiles :
        \E r \in {JsonConfig_post_init(f)} : file = r.file /\ json = r.json
    /\ handler = Handler("_BaseHandler", concurrency)
    /\ jobs = <<>>
    /\ client = Meural(FALSE)

NextJson == GetItem \/ JsonSetItem \/ Update \/ UpdateIn \/ Setdefault

SpecJson == InitJson /\ [][NextJson]_vars

----------------------------------------------------------------------------
(* Properties of the JSON store (SpecJson) *)

MutatingCalls == {"setitem", "update", "update_in", "setdefault"}

\* C26: a JsonConfig on which no call was made has not opened its file and
\* has no mapping; and after a mutating call (item assignment, update,
\* update_in, setdefault of an absent key) returned, the file holds the
\* document of the mapping in memory
C26_LazyAndWrittenBack ==
    /\ last.op = "none" => (~json.loaded /\ ~file.opened /\ file \in InitialFiles)
    /\ last.op \in MutatingCalls =>
        ((last.out = "ok" /\ (last.op = "setdefault" => last.absent)) =>
            /\ json.loaded
            /\ file.kind = "json"
            /\ file.doc = dumps(dict(json.d)))

\* update_in returned after it put a tuple into the mapping under 'seen',
\* and the file holds the array of it
C26_Witness ==
    /\ last.op = "update_in" /\ last.out = "ok"
    /\ s_seen \in DOMAIN json.d
    /\ json.d[s_seen] = dict(Put(<<>>, s_k, Coll("tuple", <<PyInt(1)>>)))
    /\ file.kind = "json"
    /\ file.doc.v[s_seen].v[s_k].j = "array"

\* C27: a save never leaves the file emptied or with the start of a
\* document: after every call, failed or not, the file holds the complete
\* document it held before or the complete document of the new mapping
C27_NeverPartial ==
    file.kind # "partial"

----------------------------------------------------------------------------
(* The image handlers: _BaseHandler.seen, fetch_url_as_file and a handler
   method of the shape of ImagesDiscordHandler.handle_discord_forward *)

LowerCh(c) ==
    IF \E i \in DOMAIN UpperAlpha : UpperAlpha[i] = c
    THEN LowerAlpha[CHOOSE i \in DOMAIN UpperAlpha : UpperAlpha[i] = c]
    ELSE c

\* str.lower()
lower(s) == Eval(LAMBDA x : [i \in 1..Len(x) |-> LowerCh(x[i])], s)

\* str.startswith(p)
startswith(s, p) == Len(s) >= Len(p) /\ SubSeq(s, 1, Len(p)) = p

s_error == <<"e","r","r","o","r">>

s_discord_channel ==
    <<"d","i","s","c","o","r","d","_","c","h","a","n","n","e","l">>

s_email_forward == <<"e","m","a","i","l","_","f","o","r","w","a","r","d">>

s_url == <<"u">>

\* datetime.utcnow().isoformat()
isoformat == <<"2","0","2","1","-","0","5","T","1","2">>

\* f'error: {e.__class__.__name__}', the name of the class in one piece
tombstone(e) == PyStr(s_error \o <<":", " ", e>>)

\* f'error: TimeoutError {next_try}'
tombstone_timeout ==
    PyStr(s_error \o <<":", " ", "TimeoutError", " ">> \o isoformat)

\* seen_db.get(id, False) and what seen() makes of it: the value it yields,
\* as a truth value. rec is None for an absent record.
seen_value(rec) ==
    CASE rec = None     -> FALSE
      [] rec.t = "str"  -> IF startswith(lower(rec.v), s_error) THEN FALSE
                           ELSE lower(rec.v) # <<>>
      [] OTHER          -> ~Falsy(rec)

\* the record of (key, id) in the mapping d, None when there is none
Record(d, key, id) ==
    IF s_seen \in DOMAIN d /\ key \in DOMAIN d[s_seen].v
       /\ id \in DOMAIN d[s_seen].v[key].v
    THEN d[s_seen].v[key].v[id] ELSE None

\* seen_db[id] = x, on the dict that setdefault returned
SetRecord(st, key, id, x) ==
    [st EXCEPT !.json.d[s_seen] =
        dict(Put(@.v, key, dict(Put(@.v[key].v, id, x))))]

\* seen up to its yield with the test alone: the record is left as found
seen_enter_unmarked(st, key, id) ==
    Eval(LAMBDA s1 :
            [seen |-> seen_value(Record(s1.json.d, key, id)), st |-> s1],
         JsonConfig_setdefault(st, s_seen, dict(<<>>)))

\* _BaseHandler.seen up to its yield: the record is looked up and, when it
\* does not count as seen, replaced by the time of now
seen_enter(st, key, id) ==
    Eval(LAMBDA s1 :
        Eval(LAMBDA s2 :
            Eval(LAMBDA seen :
                    [seen |-> seen,
                     st |-> IF seen THEN s2
                            ELSE SetRecord(s2, key, id, PyStr(isoformat))],
                 seen_value(Record(s2.json.d, key, id))),
             IF key \in DOMAIN s1.json.d[s_seen].v THEN s1
             ELSE [s1 EXCEPT !.json.d[s_seen] = dict(Put(@.v, key, dict(<<>>)))]),
         JsonConfig_setdefault(st, s_seen, dict(<<>>)))

Swallowed == {"TimeoutError", "CancelledError"}

\* the except clauses of seen that leave the record as it is
seen_exit_keeps(st, key, id, exc) ==
    JsonConfig_exit(st, IF exc \in Swallowed THEN "ok" ELSE exc)

\* _BaseHandler.seen after its yield, when the body ended with exc ("ok":
\* it returned): the except clauses, then the exit of `with self.db`.
\* TimeoutError and what is no Exception (CancelledError) are not raised
\* again.
seen_exit(st, key, id, exc) ==
    CASE exc = "ok" -> JsonConfig_exit(st, "ok")
      [] exc = "TimeoutError" ->
            JsonConfig_exit(SetRecord(st, key, id, tombstone_timeout), "ok")
      [] exc \in Swallowed ->
            JsonConfig_exit(SetRecord(st, key, id, tombstone(exc)), "ok")
      [] OTHER ->
            JsonConfig_exit(SetRecord(st, key, id, tombstone(exc)), exc)

\* a run of the handler method for an event of (key, url); body: how the
\* body of the `with seen` block ended, arg: the argument of the exception
\* it raised, out: how the handler method ended
Job(key, url) ==
    [key |-> key, url |-> url, pc |-> "new", seen |-> FALSE, status |-> 0,
     body |-> "none", out |-> "none", arg |-> <<>>]

\* the world of a step: the store, the handler, the job
World(st, h, job) == [st |-> st, handler |-> h, job |-> job]

\* the body ended with exc, raised with argument arg: seen ends, and the
\* handler method with it
finish(w, exc, arg) ==
    Eval(LAMBDA s :
            [w EXCEPT !.st = s,
                      !.job.pc = "done", !.job.body = exc, !.job.out = s.out,
                      !.job.arg = arg],
         seen_exit(w.st, w.job.key, w.job.url, exc))

\* Semaphore.release
Semaphore_release(h) == [h EXCEPT !.permits = @ + 1]

\* `async with self._lock, aiohttp.ClientSession() as session,
\* session.get(url) as resp` once the lock is acquired: the request is sent
session_get(w) ==
    [w EXCEPT !.handler.permits = @ - 1,
              !.handler.fetches = Append(@, w.job.url),
              !.job.pc = "await_get"]

\* the status of the response is not the one that fetch_url_as_file takes
incomplete_never(status) == FALSE

\* resp.status != 200
incomplete(status) == status # 200

\* fetch_url_as_file from its first line to its first await
fetch_url_as_file(w) ==
    CASE w.job.url \in w.handler.cache -> [w EXCEPT !.job.pc = "await_send"]
      [] w.handler.permits > 0         -> session_get(w)
      [] OTHER                         -> [w EXCEPT !.job.pc = "wait_lock"]

\* the handler method from its start to its first await
handle_discord_forward(w) ==
    Eval(LAMBDA w1 :
            IF w1.job.seen
            THEN [finish(w1, "ok", <<>>) EXCEPT !.job.body = "skipped"]
            ELSE fetch_url_as_file(w1),
         Eval(LAMBDA e : [w EXCEPT !.st = e.st, !.job.seen = e.seen],
              seen_enter(w.st, w.job.key, w.job.url)))

\* session.get(url) ended: r.exc is what it raised, or "none" and r.status
\* is the status of the response
fetch_response(w, r) ==
    CASE r.exc # "none" ->
            finish([w EXCEPT !.handler = Semaphore_release(@)], r.exc, <<>>)
      [] r.exc = "none" /\ incomplete(r.status) ->
            finish([w EXCEPT !.handler = Semaphore_release(@),
                             !.job.status = r.status],
                   "RuntimeError", w.job.url)
      [] OTHER -> [w EXCEPT !.job.status = r.status, !.job.pc = "await_read"]

\* `await resp.read()` returned: the file is cached, the lock released, and
\* the handler awaits the send
fetch_read(w) ==
    [w EXCEPT !.handler = Semaphore_release([@ EXCEPT !.cache = @ \cup {w.job.url}]),
              !.job.pc = "await_send"]

----------------------------------------------------------------------------
(* ImageHandlingCog of cog.py: seen, fetch_url_as_file, handle_image_url *)

\* time()
time == PyFloat(15, 1)

\* self.db['seen'].get(id, False), None when there is no record
FlatRecord(d, id) ==
    IF s_seen \in DOMAIN d /\ id \in DOMAIN d[s_seen].v
    THEN d[s_seen].v[id] ELSE None

\* ImageHandlingCog.seen after its yield: IncompleteHandling is logged and
\* not raised again, any other exception goes on, and a body that returned
\* gets its record, unless there was one
ImageHandlingCog_seen_exit(w, exc, arg) ==
    Eval(LAMBDA s :
            [w EXCEPT !.st = s, !.job.pc = "done", !.job.body = exc,
                      !.job.arg = arg,
                      !.job.out = CASE s.out # "ok" -> s.out
                                    [] exc = "IncompleteHandling" -> "ok"
                                    [] OTHER -> exc],
         IF exc = "ok" /\ ~w.job.seen
         THEN JsonConfig_update_in(w.st, s_seen, Put(<<>>, w.job.url, time))
         ELSE w.st)

\* handle_image_url from its start to its first await: db is made on its
\* first use (setdefault of 'seen'), seen yields the record, and a url that
\* was not seen is requested
ImageHandlingCog_handle_image_url(w) ==
    Eval(LAMBDA s :
        Eval(LAMBDA seen :
                IF seen
                THEN [ImageHandlingCog_seen_exit(
                        [w EXCEPT !.st = s, !.job.seen = TRUE], "ok", <<>>)
                      EXCEPT !.job.body = "skipped"]
                ELSE [w EXCEPT !.st = s,
                               !.handler.fetches = Append(@, w.job.url),
                               !.job.pc = "await_get"],
             ~Falsy(FlatRecord(s.json.d, w.job.url))),
         JsonConfig_setdefault(w.st, s_seen, dict(<<>>)))

\* ImageHandlingCog.fetch_url_as_file when session.get(url) ended
ImageHandlingCog_fetch_response(w, r) ==
    CASE r.exc # "none" -> ImageHandlingCog_seen_exit(w, r.exc, <<>>)
      [] r.exc = "none" /\ incomplete(r.status) ->
            [w EXCEPT !.job.status = r.status, !.job.pc = "await_notify"]
      [] OTHER -> [w EXCEPT !.job.status = r.status, !.job.pc = "await_read"]

----------------------------------------------------------------------------
(* SpecSeen: events of one URL, handled by one image handler *)

MaxJobs == 3

Namespaces == {s_discord_channel, s_email_forward}

Urls == {s_url}

Statuses == {200, 204, 404}

\* a response of some status, or no response in time
Responses ==
    {[exc |-> "none", status |-> s] : s \in Statuses}
    \cup {[exc |-> "TimeoutError", status |-> 0]}

\* the store and the handler of the state, with job i
WorldOf(i) == World(Store, handler, jobs[i])

\* the step w of job i was made
Stepped(i, w) ==
    /\ file' = w.st.file
    /\ json' = w.st.json
    /\ handler' = w.handler
    /\ jobs' = [jobs EXCEPT ![i] = w.job]
    /\ UNCHANGED client
    /\ UNCHANGED <<vars_config, vars_loop, vars_discover>>

\* the namespaces of the records of a handler; ImageHandlingCog has none
KeysOf(impl) == IF impl = "_BaseHandler" THEN Namespaces ELSE {<<>>}

\* on_image_with_caption is dispatched with a url: the wrapper of the
\* handler method creates its task, which runs to its first await
Event ==
    /\ Len(jobs) < MaxJobs
    /\ \E key \in KeysOf(handler.impl), url \in Urls :
        \E w \in {IF handler.impl = "_BaseHandler"
                  THEN handle_discord_forward(World(Store, handler, Job(key, url)))
                  ELSE ImageHandlingCog_handle_image_url(
                            World(Store, handler, Job(key, url)))} :
            /\ file' = w.st.file
            /\ json' = w.st.json
            /\ handler' = w.handler
            /\ jobs' = Append(jobs, w.job)
    /\ UNCHANGED client
    /\ UNCHANGED <<vars_config, vars_loop, vars_discover>>

\* the first task that waits for the lock gets it after a release
Acquired ==
    \E i \in DOMAIN jobs :
        /\ jobs[i].pc = "wait_lock"
        /\ \A j \in 1..(i - 1) : jobs[j].pc # "wait_lock"
        /\ handler.permits > 0
        /\ \E w \in {session_get(WorldOf(i))} : Stepped(i, w)

Response ==
    \E i \in DOMAIN jobs, r \in Responses :
        /\ jobs[i].pc = "await_get"
        /\ \E w \in {IF handler.impl = "_BaseHandler"
                      THEN fetch_response(WorldOf(i), r)
                      ELSE ImageHandlingCog_fetch_response(WorldOf(i), r)} :
                Stepped(i, w)

\* `await self.channel.send('Could not download file...')` returned:
\* fetch_url_as_file raises IncompleteHandling(url)
Notified ==
    \E i \in DOMAIN jobs :
        /\ jobs[i].pc = "await_notify"
        /\ \E w \in {ImageHandlingCog_seen_exit(WorldOf(i), "IncompleteHandling",
                                                jobs[i].url)} : Stepped(i, w)

\* `await resp.read()` returned. ImageHandlingCog calls its handlers and
\* leaves the block of seen.
ReadDone ==
    \E i \in DOMAIN jobs :
        /\ jobs[i].pc = "await_read"
        /\ \E w \in {IF handler.impl = "_BaseHandler"
                      THEN fetch_read(WorldOf(i))
                      ELSE ImageHandlingCog_seen_exit(WorldOf(i), "ok", <<>>)} :
                Stepped(i, w)

\* channel.send returned or raised, or the task was cancelled while it
\* awaited it
Sent ==
    \E i \in DOMAIN jobs, o \in {"ok", "HTTPException", "CancelledError"} :
        /\ jobs[i].pc = "await_send"
        /\ \E w \in {finish(WorldOf(i), o, <<>>)} : Stepped(i, w)

\* the records that a file may hold from an earlier run
SeenFiles ==
    {[kind |-> "absent", doc |-> None, opened |-> FALSE]}
    \cup {FileOf(Put(<<>>, s_seen,
                     dict(Put(<<>>, s_discord_channel, dict(Put(<<>>, s_url, x)))))) :
            x \in {PyStr(isoformat), tombstone("RuntimeError")}}

\* the records that the file of an ImageHandlingCog may hold
FlatSeenFiles ==
    {[kind |-> "absent", doc |-> None, opened |-> FALSE],
     FileOf(Put(<<>>, s_seen, dict(Put(<<>>, s_url, time))))}

\* images_handler._BaseHandler: a lock of `concurrency` permits;
\* tinybeans2.ImageHandler: Semaphore(); ImageHandlingCog: no lock
InitSeen ==
    /\ ConfigConstructed(None, EnvOf(<<>>), "Cog")
    /\ LoopIdle
    /\ DiscoverIdle
    /\ \/ /\ \E f \in SeenFiles :
                \E r \in {JsonConfig_post_init(f)} : file = r.file /\ json = r.json
          /\ \E n \in {Semaphore_value, concurrency} :
                handler = Handler("_BaseHandler", n)
       \/ /\ \E f \in FlatSeenFiles :
                \E r \in {JsonConfig_post_init(f)} : file = r.file /\ json = r.json
          /\ handler = Handler("ImageHandlingCog", 0)
    /\ jobs = <<>>
    /\ client = Meural(FALSE)

NextSeen == Event \/ Acquired \/ Response \/ Notified \/ ReadDone \/ Sent

SpecSeen == InitSeen /\ [][NextSeen]_vars

----------------------------------------------------------------------------
(* Properties of the image handlers (SpecSeen) *)

\* the tasks that found the url missing in the cache and did not cache it yet
InFetch == {i \in DOMAIN jobs : jobs[i].pc \in {"wait_lock", "await_get", "await_read"}}

\* C28: between the test of a task that finds a url missing in the cache of
\* the handler and its write to the cache, no other task tests the cache
\* for that url: of the tasks that handle one url, at most one is between
\* its test and its write, so the url is fetched once
C28_FetchOnce ==
    \A i, j \in InFetch : jobs[i].url = jobs[j].url => i = j

IsTimestamp(rec) == rec = PyStr(isoformat)

IsTombstone(rec) ==
    rec # None /\ rec.t = "str" /\ startswith(rec.v, s_error \o <<":">>)

\* the record of (key, id) as the next event finds it
StoredRecord(key, id) == Record(JsonConfig_json(Store).json.d, key, id)

\* the step starts the handler method for a new event
Started == Len(jobs') > Len(jobs)

\* the step ends job i
Ended(i) == jobs[i].pc # "done" /\ jobs'[i].pc = "done"

\* C29: an event that finds a timestamp in the record of its (namespace,
\* id) skips the body of the handler; an event that finds an 'error: <kind>'
\* tombstone is not seen and runs the body; and when a body fails, the
\* record it leaves, in memory and in the file, is a tombstone
C29_SeenBookkeeping ==
    [][handler.impl = "_BaseHandler" =>
        ( /\ Started =>
                (\A j \in {jobs'[Len(jobs')]} :
                    \A rec \in {StoredRecord(j.key, j.url)} :
                        /\ IsTimestamp(rec) =>
                                /\ j.pc = "done" /\ j.body = "skipped"
                                /\ handler' = handler
                        /\ IsTombstone(rec) =>
                                /\ ~j.seen
                                /\ j.pc \in {"wait_lock", "await_get", "await_send"})
          /\ \A i \in DOMAIN jobs :
                (Ended(i) /\ jobs'[i].body \notin {"ok", "skipped"}) =>
                    /\ IsTombstone(Record(json'.d, jobs[i].key, jobs[i].url))
                    /\ file'.kind = "json"
                    /\ file'.doc = dumps(dict(json'.d)) )]_vars

\* the body of a first event failed on the status of the response, a
\* second event of the same (namespace, id) ran the body to its end, and a
\* third one skipped it
C29_Witness ==
    /\ Len(jobs) = 3
    /\ \A i \in DOMAIN jobs : jobs[i].key = s_discord_channel /\ jobs[i].pc = "done"
    /\ jobs[1].body = "RuntimeError"
    /\ jobs[2].body = "ok" /\ ~jobs[2].seen
    /\ jobs[3].body = "skipped"
    /\ IsTimestamp(Record(json.d, s_discord_channel, s_url))

----------------------------------------------------------------------------
(* Properties of the periodic loop, continued *)

\* the task of a periodic loop is between two bodies: in its sleep or past it
Sleeps(t) == t.pc \in {"sleeping", "woke"}

\* C31: within one periodic loop an iteration starts only when the task is
\* new (the first iteration, with no sleep before it) or when the sleep that
\* followed the previous body is over, the previous body having returned or
\* raised; the sleep is entered after a return and after an exception alike
\* and ends only by its timer (an interval of 0 only yields); the body runs
\* in the task of the loop itself, so a loop is in one body at a time
C31_LoopSequenced ==
    [][\A id \in DOMAIN tasks :
          tasks[id].role = "loop" =>
            /\ (tasks'[id].iter # tasks[id].iter =>
                  /\ tasks'[id].iter = tasks[id].iter + 1
                  /\ \/ /\ tasks[id].pc = "new"
                        /\ tasks[id].iter = 0
                        /\ tasks'[id].sleeps = 0
                     \/ /\ tasks[id].pc = "woke"
                        /\ tasks[id].body \in {"return", "Exception"}
                        /\ tasks'[id].sleeps = tasks[id].iter)
            /\ (Sleeps(tasks'[id]) /\ ~Sleeps(tasks[id]) =>
                  tasks'[id].body \in {"return", "Exception"})
            /\ (tasks'[id].pc = "woke" /\ tasks[id].pc # "woke" =>
                  \/ tasks[id].pc = "sleeping"
                  \/ handlers[tasks[id].h].interval = 0)
            /\ (tasks[id].pc \in {"new", "woke", "resumed"}
                /\ tasks'[id].pc # tasks[id].pc
                /\ tasks'[id].body \in {"return", "Exception"} =>
                  Sleeps(tasks'[id]))]_vars

\* a loop with an interval of 60 s is in the body of its second iteration,
\* after one completed sleep
C31_Witness ==
    \E id \in DOMAIN tasks :
        /\ tasks[id].role = "loop"
        /\ handlers[tasks[id].h].interval = 60
        /\ tasks[id].iter = 2
        /\ tasks[id].sleeps = 1
        /\ tasks[id].pc = "awaiting"

\* the tasks of role r created for handler h
TasksOf(r, h) == {id \in DOMAIN tasks : tasks[id].role = r /\ tasks[id].h = h}

\* the loops of handler h that no BaseException has ended
LoopsRunning(h) == {id \in TasksOf("loop", h) : tasks[id].pc # "done"}

\* the loops of handler h that an exception from outside the Exception
\* hierarchy (a cancellation, an exit of the interpreter) has ended
LoopsEnded(h) == {id \in TasksOf("loop", h) : tasks[id].out = "BaseException"}

\* the wrappers of handler h that the loop has not run yet
WrappersPending(h) == {id \in TasksOf("wrapper", h) : tasks[id].pc # "done"}

----------------------------------------------------------------------------
(* Locations: the first loop of Bot.discover_extensions resolves the
   locations it is given to modules, the second scans the modules *)

\* the characters of file, module and symbol names, in code point order
CodePoints == <<".">> \o Digits \o UpperAlpha \o <<"_">> \o LowerAlpha

ord(c) == CHOOSE i \in DOMAIN CodePoints : CodePoints[i] = c

\* a < b for two str: by code points, a proper prefix first
RECURSIVE str_lt(_, _)
str_lt(a, b) ==
    IF b = <<>> THEN FALSE
    ELSE IF a = <<>> THEN TRUE
    ELSE IF Head(a) # Head(b) THEN ord(Head(a)) < ord(Head(b))
    ELSE str_lt(Tail(a), Tail(b))

\* the names of S from last to first
RECURSIVE sorted_reverse(_)
sorted_reverse(S) ==
    IF S = {} THEN <<>>
    ELSE LET m == CHOOSE x \in S : \A y \in S \ {x} : str_lt(y, x)
         IN  <<m>> \o sorted_reverse(S \ {m})

\* sorted(S), list.sort(): the names of S in ascending order
RECURSIVE sorted(_)
sorted(S) ==
    IF S = {} THEN <<>>
    ELSE LET m == CHOOSE x \in S : \A y \in S \ {x} : str_lt(x, y)
         IN  <<m>> \o sorted(S \ {m})

s_py == <<".", "p", "y">>

\* inspect.getmodulename(fn): the file name less its suffix, <<>> for a file
\* that is no module
getmodulename(fn) ==
    IF Len(fn) > Len(s_py) /\ SubSeq(fn, Len(fn) - Len(s_py) + 1, Len(fn)) = s_py
    THEN SubSeq(fn, 1, Len(fn) - Len(s_py))
    ELSE <<>>

\* the module names of the file names fns, in the order of fns
modules_of(fns) ==
    LET names == [i \in DOMAIN fns |-> getmodulename(fns[i])]
    IN  SelectSeq(names, LAMBDA n : n # <<>>)

\* iter_modules over the listing of the directory as it comes, here from
\* last to first
iter_modules_listdir(files) == modules_of(sorted_reverse(files))

\* pkgutil.iter_modules([str(path)]): the file names of the directory are
\* sorted, and each that names a module yields its module name; a path that
\* is no directory has no importer and yields nothing
iter_modules(files) == modules_of(sorted(files))

\* a location: an importable module, a directory with its files, a path
\* that exists and is no directory, or a path that does not exist
Location(k, n, fs) == [kind |-> k, name |-> n, files |-> fs]

\* the modules of locations that exist, the others passed over
RECURSIVE load_existing(_, _, _)
load_existing(locs, i, mods) ==
    IF i > Len(locs) THEN [out |-> "ok", mods |-> mods]
    ELSE CASE locs[i].kind = "module" ->
                load_existing(locs, i + 1,
                              Append(mods, [loc |-> i, name |-> locs[i].name]))
           [] locs[i].kind = "missing" -> load_existing(locs, i + 1, mods)
           [] OTHER ->
                Eval(LAMBDA names :
                        load_existing(locs, i + 1,
                                      mods \o [k \in DOMAIN names |->
                                                  [loc |-> i, name |-> names[k]]]),
                     iter_modules(locs[i].files))

\* the first loop of discover_extensions from location i on, with the
\* modules loaded so far: import_module(str(path_or_mod)), or on ImportError
\* the modules of the directory; a path that does not exist raises
RECURSIVE load(_, _, _)
load(locs, i, mods) ==
    IF i > Len(locs) THEN [out |-> "ok", mods |-> mods]
    ELSE CASE locs[i].kind = "module" ->
                load(locs, i + 1, Append(mods, [loc |-> i, name |-> locs[i].name]))
           [] locs[i].kind = "missing" -> [out |-> "RuntimeError", mods |-> mods]
           [] OTHER ->
                Eval(LAMBDA names :
                        load(locs, i + 1,
                             mods \o [k \in DOMAIN names |->
                                         [loc |-> i, name |-> names[k]]]),
                     iter_modules(locs[i].files))

\* the names that the module called m binds: two cog classes of its own and
\* a private constant
namespace(m) == {m \o <<"Z">>, m \o <<"A">>, <<"_", "p">>}

\* getattr(mod, name) for name in the module m of location loc
Loadable(loc, m, name) ==
    IF startswith(name, <<"_">>)
    THEN [private |-> TRUE, kind |-> "int", origin |-> "none", cls |-> name,
          enabled |-> TRUE, url_root |-> NotWebCog,
          name |-> name, mod |-> m, loc |-> loc]
    ELSE [private |-> FALSE, kind |-> "cog_class", origin |-> "same", cls |-> name,
          enabled |-> TRUE, url_root |-> NotWebCog,
          name |-> name, mod |-> m, loc |-> loc]

\* the second loop: for mod in mods: for name in dir(mod), dir being sorted
RECURSIVE scanned(_)
scanned(mods) ==
    IF mods = <<>> THEN <<>>
    ELSE Eval(LAMBDA names :
                 [k \in DOMAIN names |->
                     Loadable(Head(mods).loc, Head(mods).name, names[k])],
              sorted(namespace(Head(mods).name)))
         \o scanned(Tail(mods))

\* discover_extensions(*paths_or_mods) up to its second loop
LoadModules ==
    /\ discovery = "new"
    /\ \E r \in {load(scan.locations, 1, <<>>)} :
        \E names \in {IF r.out = "ok" THEN scanned(r.mods) ELSE <<>>} :
            /\ scan' = [scan EXCEPT !.mods = r.mods]
            /\ symbols' = names
            /\ discovery' = IF r.out # "ok" THEN r.out
                            ELSE IF names = <<>> THEN "done"
                            ELSE "running"
    /\ UNCHANGED <<next_symbol, cogs, calls, mounts, startup>>
    /\ UNCHANGED <<vars_config, vars_loop, vars_store>>

\* locations of one call that the model follows
MaxLocations == 2

s_m == <<"m">>

FileNames(stems) == {stem \o s_py : stem \in stems}

\* a module; a directory of three modules; a directory with a capital, an
\* inner underscore and a file that is no module; a file; a missing path
Places ==
    {Location("module", s_m, {}),
     Location("dir", <<>>, FileNames({<<"b">>, <<"a", "_", "b">>, <<"a">>})),
     Location("dir", <<>>, FileNames({<<"c">>, <<"B">>}) \cup {<<"c", ".", "t", "x", "t">>}),
     Location("file", <<>>, {}),
     Location("missing", <<>>, {})}

InitLocations ==
    /\ ConfigConstructed(None, EnvOf(<<>>), "Cog")
    /\ LoopIdle
    /\ \E locs \in UNION {[1..n -> Places] : n \in 1..MaxLocations} :
            scan = [locations |-> locs, mods |-> <<>>]
    /\ symbols = <<>>
    /\ next_symbol = 1
    /\ cogs = <<>>
    /\ calls = <<>>
    /\ discovery = "new"
    /\ mounts = <<>>
    /\ startup = StartupIdle
    /\ StoreIdle

NextLocations == LoadModules \/ DiscoverExtension \/ Bot_run \/ main_except

SpecLocations == InitLocations /\ [][NextLocations]_vars

----------------------------------------------------------------------------
(* Properties of the resolution of locations *)

\* symbol s comes before symbol u: by the position of the location, then by
\* the name of the module, then by the name of the symbol
Precedes(s, u) ==
    \/ s.loc < u.loc
    \/ s.loc = u.loc /\ str_lt(s.mod, u.mod)
    \/ s.loc = u.loc /\ s.mod = u.mod /\ str_lt(s.name, u.name)

\* the modules that the locations hold, each with the position of its location
ModulesGiven ==
    {<<i, scan.locations[i].name>> :
        i \in {j \in DOMAIN scan.locations : scan.locations[j].kind = "module"}}
    \cup UNION {{<<i, SubSeq(fn, 1, Len(fn) - 3)>> :
                    fn \in {f \in scan.locations[i].files :
                                Len(f) > 3 /\ SubSeq(f, Len(f) - 2, Len(f)) = s_py}} :
                i \in DOMAIN scan.locations}

ModulesLoaded == {<<scan.mods[k].loc, scan.mods[k].name>> : k \in DOMAIN scan.mods}

\* the position in the scan of the symbol that registered the cog `name`
ScanPosition(name) ==
    CHOOSE k \in 1..(next_symbol - 1) :
        symbols[k].cls = name /\ calls[k].call = "add_cog"

\* C33: the order of registration is fixed by the locations: the symbols
\* are classified by the position of their location, then in the order of
\* the module names of a directory, then in the order of their names in the
\* module; the cogs are registered in that order; and when the first symbol
\* is classified every module of every location is loaded
C33_DeterministicOrder ==
    /\ \A i, j \in DOMAIN symbols : i < j => Precedes(symbols[i], symbols[j])
    /\ Len(calls) <= Len(symbols)
    /\ \A i, j \in DOMAIN cogs :
            i < j => ScanPosition(cogs[i]) < ScanPosition(cogs[j])
    /\ (symbols # <<>> \/ calls # <<>> \/ cogs # <<>>) =>
            /\ ModulesLoaded = ModulesGiven
            /\ Len(scan.mods) = Cardinality(ModulesGiven)
            /\ \A m \in DOMAIN scan.mods :
                    \A n \in namespace(scan.mods[m].name) :
                        \E k \in DOMAIN symbols :
                            /\ symbols[k].loc = scan.mods[m].loc
                            /\ symbols[k].mod = scan.mods[m].name
                            /\ symbols[k].name = n

\* two locations, the first a directory with the modules B and c: every
\* class of every module is registered
C33_Witness ==
    /\ discovery = "done"
    /\ Len(scan.locations) = 2
    /\ scan.locations[1].kind = "dir"
    /\ \E k \in DOMAIN scan.mods : scan.mods[k].name = <<"B">>
    /\ Len(cogs) = 2 * Len(scan.mods)
    /\ Len(cogs) >= 6

\* nothing of any location is classified, constructed or registered
NothingDiscovered ==
    /\ calls = <<>>
    /\ cogs = <<>>
    /\ mounts = <<>>
    /\ next_symbol = 1

\* C39 as stated: when a location is neither an importable module nor an
\* existing directory, discover_extensions raises before anything is
\* classified, constructed or registered
C39_UnresolvedRaises ==
    (\E i \in DOMAIN scan.locations :
        scan.locations[i].kind \notin {"module", "dir"}) =>
            /\ NothingDiscovered
            /\ discovery \in {"new", "RuntimeError"}

\* C39: when a location is neither an importable module nor a path that
\* exists, discover_extensions raises RuntimeError before anything of any
\* location is classified, constructed or registered, the earlier locations
\* included; a path that exists and is no directory yields no module and
\* raises nothing
C39_MissingRaises ==
    /\ (\E i \in DOMAIN scan.locations : scan.locations[i].kind = "missing") =>
            /\ NothingDiscovered
            /\ symbols = <<>>
            /\ discovery \in {"new", "RuntimeError"}
    /\ (\A i \in DOMAIN scan.locations : scan.locations[i].kind # "missing") =>
            discovery # "RuntimeError"
    /\ \A k \in DOMAIN scan.mods : scan.locations[scan.mods[k].loc].kind # "file"

\* a directory, then a path that does not exist: the modules of the
\* directory are loaded, the call has raised and main has returned
C39_Witness ==
    /\ Len(scan.locations) = 2
    /\ scan.locations[1].kind = "dir"
    /\ scan.locations[2].kind = "missing"
    /\ scan.mods # <<>>
    /\ discovery = "RuntimeError"
    /\ startup.exited

----------------------------------------------------------------------------
(* SpecLog: the lookups of one extension with the log of its sources
   followed; the keys seen are one set for every source of the process *)

\* NAME is set for the process or not, and never for the extension
EnvsLog == {EnvOf(<<<<n_APP_NAME, b>>>>) : b \in {AbsentVar, s_b}}

\* the two sources of the extension on their own, and its two chains
TargetsLog ==
    {Leaf("cog_config"), Leaf("bot_config"), Cog_config, Cog_config_safe}

\* a key, a key that no source holds, and the stored key of the process
\* source, which every source takes as it is
KeysLog == {Key(s_NAME), Key(s_OTHER), KeyT(n_APP_NAME)}

InitLog == \E env \in EnvsLog : Constructed(PyStr(s_APP), env, "Cleaner")

NextLog ==
    \/ IndexLogging(TargetsLog, KeysLog, TRUE)
    \/ GetLogging(TargetsLog, KeysLog, {None}, TRUE)
    \/ Return

SpecLog == InitLog /\ [][NextLog]_vars

\* the positions in the log of the messages `msg` for the key
MessagesOf(msg, key) ==
    {i \in DOMAIN messages : messages[i].msg = msg /\ messages[i].key = key}

\* C34: for every stored key the log holds at most one miss message, over
\* all sources and all lookups; a key that has a message is in the set of
\* keys seen
C34_OneMissPerKey ==
    /\ \A i \in DOMAIN messages :
            /\ Cardinality(MessagesOf("miss", messages[i].key)) <= 1
            /\ messages[i].key \in seen_keys
    /\ \A key \in seen_keys : \E i \in DOMAIN messages : messages[i].key = key

\* the source of the extension missed the stored key of the process source,
\* whose one miss message is older than the latest message in the log
C34_Witness ==
    /\ pc = "returned"
    /\ last.consulted = <<Consulted("cog_config", KeyT(n_APP_NAME))>>
    /\ last.out.kind = "KeyError"
    /\ Len(messages) >= 2
    /\ messages[1] = [msg |-> "miss", key |-> n_APP_NAME]
    /\ MessagesOf("miss", n_APP_NAME) = {1}

----------------------------------------------------------------------------
(* SpecOrder: the lookups of a WebCog, whose Config declares the defaults
   HOST and PORT, with HOST set or not for the extension and for the
   process, in the environment and as an override *)

EnvsOrder ==
    {EnvOf(<<<<n_APP_WEB_COG_HOST, w>>, <<n_APP_HOST, h>>>>) :
        w \in {AbsentVar, s_empty, s_w}, h \in {AbsentVar, s_h}}

TargetsOrder == {Cog_config, Cog_config_safe}

KeysOrder == {Key(s_HOST), Key(s_PORT), Key(s_NAME)}

\* an override and an empty override, on either source
SetItemsOrder == {<<Key(s_HOST), PyStr(s_o)>>, <<Key(s_HOST), PyStr(s_empty)>>}

InitOrder == \E env \in EnvsOrder : Constructed(PyStr(s_APP), env, "WebCog")

NextOrder ==
    \/ Index(TargetsOrder, KeysOrder)
    \/ Get(TargetsOrder, KeysOrder, {PyStr(s_dflt)})
    \/ SetItem({Leaf(c) : c \in EnvSources}, SetItemsOrder)
    \/ Return

SpecOrder == InitOrder /\ [][NextOrder]_vars

\* an override counts when it is not falsy
OverrideSet(c, k) ==
    IF Falsy(OverrideOf(c, k)) THEN None ELSE OverrideOf(c, k)

\* what the extension holds for key k, in the order of the claim
LookupOrder(k) ==
    <<[c |-> "cog_config", x |-> OverrideSet("cog_config", k)],
      [c |-> "cog_config", x |-> EnvironOf("cog_config", k)],
      [c |-> "cog_config", x |-> ClassDefaultOf("cog_config", k)],
      [c |-> "bot_config", x |-> OverrideSet("bot_config", k)],
      [c |-> "bot_config", x |-> EnvironOf("bot_config", k)]>>

\* C35: a lookup of a key through the chain of an extension returns the
\* first that exists of: the override of the extension's source, the
\* environment variable under the extension's prefix, the default that the
\* Config class of the extension gives the key, the override of the process
\* source, the variable under the process prefix. The process source is
\* consulted only when the first three hold nothing; when all hold nothing
\* the lookup misses
C35_LookupOrder ==
    (/\ last.op \in {"index", "get"}
     /\ \/ last.target = Cog_config
        \/ /\ last.target = Cog_config_safe
           /\ last.key.s \in DOMAIN getattr_Config(ext).annotations) =>
        LET order == LookupOrder(last.key)
            found == {i \in DOMAIN order : order[i].x # None}
        IN  IF found = {}
            THEN /\ SourcesOf(last.consulted) = Cog_chain
                 /\ last.out = IF last.op = "get" THEN Ok(last.dflt)
                                ELSE Raise("KeyError")
            ELSE LET f == CHOOSE i \in found : \A j \in found : i <= j
                 IN  /\ last.out = Ok(order[f].x)
                     /\ SourcesOf(last.consulted) =
                            IF order[f].c = "cog_config" THEN <<"cog_config">>
                            ELSE Cog_chain
                     /\ \A i \in DOMAIN last.consulted :
                            last.consulted[i].key =
                                StoredName(last.consulted[i].c, last.key)

\* HOST is set for the process and not for the extension: the lookup
\* returns the default of WebCog.Config and consults the extension's source
\* alone
C35_Witness ==
    /\ last.op = "index"
    /\ last.target = Cog_config
    /\ last.key = Key(s_HOST)
    /\ n_APP_HOST \in DOMAIN environ
    /\ n_APP_WEB_COG_HOST \notin DOMAIN environ
    /\ OverrideSet("cog_config", last.key) = None
    /\ last.out = Ok(WebCog_Config.defaults[s_HOST])
    /\ SourcesOf(last.consulted) = <<"cog_config">>

----------------------------------------------------------------------------
(* SpecCoerce: typed lookups of settings whose declared type is not a key of
   _simple_type_map *)

n_APP_IMAGES_EMAIL_HANDLER_ENABLED == <<"A","P","P","_","_","I","M","A","G","E","S","_","E","M","A","I","L","_","H","A","N","D","L","E","R","_","_","E","N","A","B","L","E","D">>

n_APP_ENABLED == <<"A","P","P","_","_","E","N","A","B","L","E","D">>

n_APP_PLANNER_RETRIES == <<"A","P","P","_","_","P","L","A","N","N","E","R","_","_","R","E","T","R","I","E","S">>

n_APP_PLANNER_LIMITS == <<"A","P","P","_","_","P","L","A","N","N","E","R","_","_","L","I","M","I","T","S">>

s_1 == <<"1">>

\* each setting is set for the extension, set for the process, or not set
EnvsCoerce ==
    {EnvOf(<<<<n_APP_IMAGES_EMAIL_HANDLER_ENABLED, a>>, <<n_APP_ENABLED, b>>,
             <<n_APP_PLANNER_RETRIES, c>>, <<n_APP_PLANNER_LIMITS, d>>>>) :
        a \in {AbsentVar, s_1}, b \in {AbsentVar, s_1},
        c \in {AbsentVar, s_7}, d \in {AbsentVar, s_x}}

ExtsCoerce == {"ImagesEmailHandler", "Planner"}

KeysCoerce == {Key(s_ENABLED), Key(s_RETRIES), Key(s_LIMITS), Key(s_NAME)}

InitCoerce ==
    \E env \in EnvsCoerce, cls \in ExtsCoerce : Constructed(PyStr(s_APP), env, cls)

NextCoerce ==
    \/ Index({Cog_config_safe}, KeysCoerce)
    \/ Get({Cog_config_safe}, KeysCoerce, Defaults)
    \/ Return

SpecCoerce == InitCoerce /\ [][NextCoerce]_vars

\* the declared type of the key of the last call, when it has one
Declared == last.key.s \in DOMAIN getattr_Config(ext).annotations

Annotation == getattr_Config(ext).annotations[last.key.s]

\* the annotation names no entry of the coercion table: neither a scalar
\* nor a collection of scalars
NotCoercible(a) ==
    /\ ~(a.origin = "" /\ a.elem \in simple_type_map_keys)
    /\ ~(a.origin \in SequenceTypes /\ a.elem \in ScalarTypes)

\* the annotation has the form name or name[name]
OneParameter(a) == "rest" \notin DOMAIN a

----------------------------------------------------------------------------
(* Properties of the image handlers, continued *)

\* job i was told 'not seen' and its body has not ended
InBody(i) == jobs[i].pc # "done" /\ ~jobs[i].seen

\* the record of job i in the mapping in memory
RecordOf(i) == Record(json.d, jobs[i].key, jobs[i].url)

\* C37: seen tests the record of (namespace, id) and writes the timestamp
\* before the task gives up control: of the runs of a handler for one
\* (namespace, id) that are in progress together at most one was told 'not
\* seen', and while it runs its body the record is a timestamp, so every
\* other run is told 'seen' and skips (the handlers of images_handler.py)
C37_OneNotSeen ==
    handler.impl = "_BaseHandler" =>
        /\ \A i, j \in DOMAIN jobs :
                (/\ InBody(i)
                 /\ InBody(j)
                 /\ jobs[i].key = jobs[j].key
                 /\ jobs[i].url = jobs[j].url) => i = j
        /\ \A i \in DOMAIN jobs :
                InBody(i) => seen_value(RecordOf(i))

\* two events for one (namespace, id): the first run awaits its fetch, the
\* second was told 'seen' and has skipped
C37_Witness ==
    /\ handler.impl = "_BaseHandler"
    /\ Len(jobs) >= 2
    /\ jobs[1].pc = "await_get"
    /\ ~jobs[1].seen
    /\ jobs[2].key = jobs[1].key
    /\ jobs[2].url = jobs[1].url
    /\ jobs[2].seen
    /\ jobs[2].body = "skipped"

----------------------------------------------------------------------------
(* Properties of WebCog.start, continued *)

\* start id leaves the method in this step
Leaves(id) == tasks[id].pc # "done" /\ tasks'[id].pc = "done"

\* start id passes `async with WebCog._lock` in this step
Enters(id) ==
    /\ tasks[id].pc \in {"new", "lock_woken"}
    /\ tasks'[id].pc \notin {"new", "lock_woken", "wait_lock"}

\* C38: WebCog.start gives the lock back on every way out, a raise of the
\* HOST or PORT lookup, of the setup of the runner or of the bind included:
\* the lock is held exactly while a start is between its test of the site
\* and its end. A site that was assigned stays assigned, also when its bind
\* raised, and every start that enters afterwards returns without creating
\* or binding anything
C38_LockReleased ==
    [][ /\ lock.value + Cardinality(InStart) = 1
        /\ lock'.value + Cardinality(InStart)' = 1
        /\ \A id \in StartTasks :
            /\ Leaves(id) => lock'.value = 1
            /\ (Leaves(id) /\ tasks[id].pc = "bind_done") => site'.set
            /\ (Enters(id) /\ site.set) =>
                    /\ tasks'[id].pc = "done"
                    /\ tasks'[id].out = "return"
        /\ site.set =>
            /\ site'.set
            /\ site'.created = site.created
            /\ site'.binds = site.binds ]_vars

\* the start of one extension raised before a site was assigned, the start
\* of another then took the lock and assigned the site, and its bind raised:
\* the site is set, bound once, and the lock is free
C38_Witness ==
    \E id, jd \in StartTasks :
        /\ id # jd
        /\ tasks[id].pc = "done"
        /\ tasks[id].out = "Exception"
        /\ tasks[jd].pc = "done"
        /\ tasks[jd].out = "Exception"
        /\ site.set
        /\ site.created = 1
        /\ site.binds = 1
        /\ lock.value = 1

----------------------------------------------------------------------------
(* The Meural client (lib/frames/meural.py) *)

\* AUTHENTICATE_PATH = 'authenticate'
AUTHENTICATE_PATH == <<"a","u","t","h","e","n","t","i","c","a","t","e">>

\* the path of get_user
s_user == <<"u","s","e","r">>

\* the token of an authentication response
s_token == PyStr(<<"t","o","k","e","n">>)

\* a call of a method of the client by the handler: get_user() or
\* login(username, password); path is the path of the request it makes now,
\* status the status of the last response it got
MeuralCall(kind) ==
    [kind |-> kind, path |-> <<>>, pc |-> "new", permit |-> FALSE,
     auth |-> FALSE, retries |-> 0, status |-> 0, out |-> "none"]

\* the call leaves the client with out: its frames are gone
Leave(cl, i, out) ==
    [cl EXCEPT !.calls[i] = [MeuralCall(@.kind) EXCEPT !.pc = "done", !.out = out,
                                                       !.status = cl.calls[i].status]]

\* Semaphore.acquire of self._lock, then the request is sent
Semaphore_acquire(cl, i) ==
    IF cl.permits > 0
    THEN [cl EXCEPT !.permits = @ - 1, !.calls[i].permit = TRUE,
                    !.calls[i].pc = "in_flight"]
    ELSE [cl EXCEPT !.waiters = Append(@, i), !.calls[i].pc = "wait_permit"]

\* Semaphore.release of self._lock: the first waiter is woken
permit_release(cl, i) ==
    LET up == [cl EXCEPT !.permits = @ + 1, !.calls[i].permit = FALSE]
    IN  IF cl.waiters = <<>> THEN up
        ELSE [up EXCEPT !.waiters = Tail(@),
                        !.calls[Head(cl.waiters)].pc = "permit_woken"]

\* Lock.release of _auth_lock: the first waiter is woken and stays in the
\* queue until it runs
Lock_release(cl, i) ==
    LET free == [cl EXCEPT !.auth.locked = FALSE, !.calls[i].auth = FALSE]
    IN  IF cl.auth.waiters = <<>> THEN free
        ELSE [free EXCEPT !.calls[Head(cl.auth.waiters)].pc = "auth_woken"]

\* an exception leaves the call: every `async with` it is in is left
raise(cl, i, exc) ==
    Eval(LAMBDA c1 :
        Eval(LAMBDA c2 : Leave(c2, i, exc),
             IF c1.calls[i].auth THEN Lock_release(c1, i) ELSE c1),
         IF cl.calls[i].permit THEN permit_release(cl, i) ELSE cl)

\* Meural.request from its first line to its first await: the permit is
\* taken and the request is sent, or the call waits for a permit
Meural_request(cl, i, path) ==
    Semaphore_acquire([cl EXCEPT !.calls[i].path = path], i)

\* login returned: a login of the handler is over, a login of request is
\* followed by `return await self.request(method, path, ...)`
login_return(cl, i) ==
    IF cl.calls[i].kind = "login" THEN Leave(cl, i, "ok")
    ELSE Meural_request([cl EXCEPT !.calls[i].retries = @ + 1], i, s_user)

\* Meural.login inside `async with _auth_lock`: a token that is set ends it;
\* username and password are the arguments of a login of the handler, or
\* the ones that the client has
login_locked(cl, i) ==
    IF ~Falsy(cl.token) THEN login_return(Lock_release(cl, i), i)
    ELSE Eval(LAMBDA c1 :
                IF ~c1.credentials THEN raise(c1, i, "AssertionError")
                ELSE Meural_request(c1, i, AUTHENTICATE_PATH),
              [cl EXCEPT !.credentials = @ \/ cl.calls[i].kind = "login"])

\* Lock.acquire of _auth_lock by a call that found it free or was woken
Lock_acquired(cl, i) ==
    [cl EXCEPT !.auth.locked = TRUE, !.calls[i].auth = TRUE]

\* Meural.login from its first line to its first await: Lock.acquire takes
\* the lock when it is free and nobody waits for it
Meural_login(cl, i, force) ==
    Eval(LAMBDA c1 :
            IF ~c1.auth.locked /\ c1.auth.waiters = <<>>
            THEN login_locked(Lock_acquired(c1, i), i)
            ELSE [c1 EXCEPT !.auth.waiters = Append(@, i),
                            !.calls[i].pc = "wait_auth"],
         IF force THEN [cl EXCEPT !.token = None] ELSE cl)

\* the statuses of the responses of the server
MeuralStatuses == {200, 401, 500}

\* the body of session.request and what follows it in Meural.request, with
\* login awaited inside `async with self._lock`
Meural_response_inside(cl, i, status, token) ==
    LET path == cl.calls[i].path
        in   == [cl EXCEPT !.calls[i].status = status]
    IN  CASE status = 401 /\ path # AUTHENTICATE_PATH -> Meural_login(in, i, TRUE)
          [] status # 200 -> raise(in, i, "ClientResponseError")
          [] path # AUTHENTICATE_PATH -> Leave(permit_release(in, i), i, "ok")
          [] Falsy(token) -> raise(in, i, "AssertionError")
          [] OTHER ->
                login_return(
                    Lock_release([permit_release(in, i) EXCEPT !.token = token], i), i)

\* Meural.request when the response of its request is there: the permit is
\* given back; a status that raise_for_status takes as an error raises
\* ClientResponseError, which is raised again unless it is a 401 on a path
\* other than authenticate: then login(force=True) is awaited. The response
\* of authenticate returns into login, which takes its token
Meural_response(cl, i, status, token) ==
    LET path == cl.calls[i].path
        out  == permit_release([cl EXCEPT !.calls[i].status = status], i)
    IN  CASE status = 401 /\ path # AUTHENTICATE_PATH -> Meural_login(out, i, TRUE)
          [] status # 200 -> raise(out, i, "ClientResponseError")
          [] path # AUTHENTICATE_PATH -> Leave(out, i, "ok")
          [] Falsy(token) -> raise(out, i, "AssertionError")
          [] OTHER ->
                login_return(Lock_release([out EXCEPT !.token = token], i), i)

----------------------------------------------------------------------------
(* SpecMeural: calls of one Meural client that run interleaved *)

\* one call more than _lock has permits: a call can find every permit taken
MaxCalls == Meural_lock_value + 1

MaxRetries == 2

CallIds == DOMAIN client.calls

\* the handler calls get_user() or login(username, password)
CallMade ==
    /\ Len(client.calls) < MaxCalls
    /\ \E kind \in {"request", "login"} :
        \E cl \in {[client EXCEPT !.calls = Append(@, MeuralCall(kind))]} :
            client' = IF kind = "request"
                      THEN Meural_request(cl, Len(cl.calls), s_user)
                      ELSE Meural_login(cl, Len(cl.calls), FALSE)
    /\ UNCHANGED <<file, json, handler, jobs>>
    /\ UNCHANGED <<vars_config, vars_loop, vars_discover>>

\* the response of the request of call i arrives
MeuralResponse ==
    /\ \E i \in CallIds, status \in MeuralStatuses, token \in {None, s_token} :
        /\ client.calls[i].pc = "in_flight"
        /\ (status = 401 /\ client.calls[i].path # AUTHENTICATE_PATH)
                => client.calls[i].retries < MaxRetries
        /\ (status # 200 \/ client.calls[i].path # AUTHENTICATE_PATH)
                => token = None
        /\ client' = Meural_response(client, i, status, token)
    /\ UNCHANGED <<file, json, handler, jobs>>
    /\ UNCHANGED <<vars_config, vars_loop, vars_discover>>

\* a call that was woken by a release of a permit runs: Semaphore.acquire
\* tests the value again
PermitWoken ==
    /\ \E i \in CallIds :
        /\ client.calls[i].pc = "permit_woken"
        /\ client' = Semaphore_acquire(client, i)
    /\ UNCHANGED <<file, json, handler, jobs>>
    /\ UNCHANGED <<vars_config, vars_loop, vars_discover>>

\* the call that was woken by the release of _auth_lock runs: it leaves the
\* queue with the lock
AuthWoken ==
    /\ \E i \in CallIds :
        /\ client.calls[i].pc = "auth_woken"
        /\ client' = login_locked(
                        Lock_acquired([client EXCEPT !.auth.waiters = Tail(@)], i), i)
    /\ UNCHANGED <<file, json, handler, jobs>>
    /\ UNCHANGED <<vars_config, vars_loop, vars_discover>>

InitMeural ==
    /\ ConfigConstructed(None, EnvOf(<<>>), "Cog")
    /\ LoopIdle
    /\ DiscoverIdle
    /\ file = [kind |-> "absent", doc |-> None, opened |-> FALSE]
    /\ json = [loaded |-> FALSE, d |-> <<>>]
    /\ handler = Handler("_BaseHandler", concurrency)
    /\ jobs = <<>>
    /\ \E credentials \in BOOLEAN : client = Meural(credentials)

NextMeural == CallMade \/ MeuralResponse \/ PermitWoken \/ AuthWoken

SpecMeural == InitMeural /\ [][NextMeural]_vars

----------------------------------------------------------------------------
(* Properties of the Meural client (SpecMeural) *)

\* the calls that hold a permit of _lock
PermitHolders == {i \in CallIds : client.calls[i].permit}

\* the calls whose request is sent and not answered
InFlight == {i \in CallIds : client.calls[i].pc = "in_flight"}

\* the calls inside `async with _auth_lock`
Authenticating == {i \in CallIds : client.calls[i].auth}

\* the calls that wait for _auth_lock
AuthWaiting == {i \in CallIds : client.calls[i].pc \in {"wait_auth", "auth_woken"}}

\* at most three requests in flight, at most one authentication in
\* progress, no permit held by a call that waits for _auth_lock
MeuralLimits ==
    /\ InFlight \subseteq PermitHolders
    /\ Cardinality(PermitHolders) <= Meural_lock_value
    /\ client.permits = Meural_lock_value - Cardinality(PermitHolders)
    /\ Cardinality(Authenticating) <= 1
    /\ client.auth.locked <=> Authenticating # {}
    /\ AuthWaiting \cap PermitHolders = {}

\* the request of call i is answered in this step
Answered(i) ==
    /\ client.calls[i].pc = "in_flight"
    /\ client'.calls[i] # client.calls[i]

\* C40: at most three requests of the Meural client are in flight and at most
\* one authentication is in progress; a call that waits for the
\* authentication lock holds no request permit; a 401 on authenticate is
\* raised to the caller; a 401 on another path, however often the request
\* was tried, resets the token and enters login, and a login that returns is
\* followed by the same request again
C40_Meural ==
    [][ /\ MeuralLimits
        /\ MeuralLimits'
        /\ \A i \in CallIds :
            /\ (/\ Answered(i)
                /\ client'.calls[i].status = 401
                /\ client.calls[i].path = AUTHENTICATE_PATH) =>
                    /\ client'.calls[i].pc = "done"
                    /\ client'.calls[i].out = "ClientResponseError"
                    /\ ~client'.auth.locked
            /\ (/\ Answered(i)
                /\ client'.calls[i].status = 401
                /\ client.calls[i].path # AUTHENTICATE_PATH) =>
                    /\ client'.calls[i].out \notin {"ok", "ClientResponseError"}
                    /\ \/ /\ client'.calls[i].pc = "wait_auth"
                          /\ client'.token = None
                       \/ /\ client'.calls[i].auth
                          /\ client'.calls[i].path = AUTHENTICATE_PATH
                          /\ client'.calls[i].pc \in {"in_flight", "wait_permit"}
                       \/ /\ client'.calls[i].pc = "done"
                          /\ client'.calls[i].out = "AssertionError"
                          /\ ~client.credentials
            /\ (/\ client.calls[i].kind = "request"
                /\ client.calls[i].auth
                /\ ~client'.calls[i].auth
                /\ client'.calls[i].pc # "done") =>
                    /\ client'.calls[i].path = s_user
                    /\ client'.calls[i].retries = client.calls[i].retries + 1
                    /\ client'.calls[i].pc \in {"in_flight", "wait_permit"}
                    /\ ~Falsy(client'.token) ]_vars

\* a request that was tried again and answered 401 once more authenticates
\* again while another call waits for the authentication lock, and with the
\* requests of the other calls every permit is taken
C40_Witness ==
    \E a, b \in CallIds :
        /\ client.calls[a].kind = "request"
        /\ client.calls[a].retries = MaxRetries - 1
        /\ client.calls[a].auth
        /\ client.calls[a].path = AUTHENTICATE_PATH
        /\ client.calls[a].pc = "in_flight"
        /\ client.calls[b].pc = "wait_auth"
        /\ Cardinality(InFlight) = Meural_lock_value
        /\ client.permits = 0

====
